---- MODULE Spec2Model ----
(***************************************************************************)
(* A model of the Parse API client (package parse): the credential         *)
(* strategies, the error values and Client.Do with its helpers.            *)
(*                                                                         *)
(* Text is modelled by TLA+ strings: Len, \o and SubSeq act on them        *)
(* character by character, so URLs, JSON bodies and rendered error         *)
(* messages are the very texts the Go code produces.                       *)
(***************************************************************************)
EXTENDS Integers, Sequences, FiniteSets, TLC

(***************************************************************************)
(* Text helpers (strings, bytes).                                          *)
(***************************************************************************)
\* The character at position i of s, "" past the end.
Ch(s, i) == IF i >= 1 /\ i <= Len(s) THEN SubSeq(s, i, i) ELSE ""

\* strings.Contains
Contains(s, sub) ==
  \E i \in 1..(Len(s) - Len(sub) + 1) : SubSeq(s, i, i + Len(sub) - 1) = sub

\* strings.Index for a one-character needle at or after position i; 0 if none.
RECURSIVE IndexFrom(_, _, _)
IndexFrom(s, c, i) ==
  IF i > Len(s) THEN 0
  ELSE IF Ch(s, i) = c THEN i
  ELSE IndexFrom(s, c, i + 1)

\* strings.LastIndex for a one-character needle, searching down from i; 0 if none.
RECURSIVE LastIndexFrom(_, _, _)
LastIndexFrom(s, c, i) ==
  IF i < 1 THEN 0
  ELSE IF Ch(s, i) = c THEN i
  ELSE LastIndexFrom(s, c, i - 1)

\* strings.Split(s, "/")
RECURSIVE SplitSlash(_)
SplitSlash(s) ==
  LET i == IndexFrom(s, "/", 1)
  IN  IF i = 0 THEN <<s>>
      ELSE <<SubSeq(s, 1, i - 1)>> \o SplitSlash(SubSeq(s, i + 1, Len(s)))

\* strings.Join(segs, "/")
RECURSIVE JoinSlash(_)
JoinSlash(segs) ==
  IF Len(segs) = 0 THEN ""
  ELSE IF Len(segs) = 1 THEN segs[1]
  ELSE segs[1] \o "/" \o JoinSlash(Tail(segs))

\* strings.TrimLeft(s, "/")
RECURSIVE TrimLeftSlash(_)
TrimLeftSlash(s) ==
  IF Ch(s, 1) = "/" THEN TrimLeftSlash(SubSeq(s, 2, Len(s))) ELSE s

Digits == "0123456789"

IsDigit(c) == Len(c) = 1 /\ IndexFrom(Digits, c, 1) # 0

\* strconv.Itoa / the %d verb, for naturals.
RECURSIVE Itoa(_)
Itoa(n) ==
  IF n < 10 THEN Ch(Digits, n + 1)
  ELSE Itoa(n \div 10) \o Ch(Digits, (n % 10) + 1)

\* The value of a run of decimal digits.
RECURSIVE Atoi(_)
Atoi(s) ==
  IF Len(s) = 0 THEN 0
  ELSE 10 * Atoi(SubSeq(s, 1, Len(s) - 1)) + (IndexFrom(Digits, Ch(s, Len(s)), 1) - 1)

(***************************************************************************)
(* net/url as the client uses it.                                          *)
(***************************************************************************)
\* A nil *url.URL.
NilURL == [nil |-> TRUE, Scheme |-> "", Host |-> "", Path |-> ""]

MkURL(scheme, host, path) ==
  [nil |-> FALSE, Scheme |-> scheme, Host |-> host, Path |-> path]

\* (*url.URL).IsAbs
IsAbs(u) == u.Scheme # ""

\* (*url.URL).String
URLString(u) ==
  (IF u.Scheme # "" THEN u.Scheme \o ":" ELSE "")
  \o (IF (u.Scheme # "" \/ u.Host # "") /\ (u.Host # "" \/ u.Path # "")
      THEN "//" ELSE "")
  \o u.Host
  \o (IF u.Path # "" /\ Ch(u.Path, 1) # "/" /\ u.Host # "" THEN "/" ELSE "")
  \o u.Path

\* The dot-segment removal loop of url.resolvePath.
RECURSIVE RemoveDots(_, _)
RemoveDots(src, dst) ==
  IF Len(src) = 0 THEN dst
  ELSE LET elem == Head(src)
       IN  IF elem = "." THEN RemoveDots(Tail(src), dst)
           ELSE IF elem = ".."
             THEN RemoveDots(Tail(src),
                             IF Len(dst) > 0 THEN SubSeq(dst, 1, Len(dst) - 1) ELSE dst)
           ELSE RemoveDots(Tail(src), Append(dst, elem))

\* url.resolvePath(base, ref)
resolvePath(base, ref) ==
  LET full == IF ref = "" THEN base
              ELSE IF Ch(ref, 1) # "/"
                THEN SubSeq(base, 1, LastIndexFrom(base, "/", Len(base))) \o ref
              ELSE ref
      src  == SplitSlash(full)
      last == src[Len(src)]
      dst0 == RemoveDots(src, <<>>)
      dst  == IF last = "." \/ last = ".." THEN Append(dst0, "") ELSE dst0
  IN  IF full = "" THEN "" ELSE "/" \o TrimLeftSlash(JoinSlash(dst))

\* (*url.URL).ResolveReference: RFC 3986 section 5.2 for scheme, host and path.
ResolveReference(base, ref) ==
  IF ref.Scheme # "" \/ ref.Host # ""
  THEN MkURL(IF ref.Scheme = "" THEN base.Scheme ELSE ref.Scheme,
             ref.Host, resolvePath(ref.Path, ""))
  ELSE MkURL(base.Scheme, base.Host, resolvePath(base.Path, ref.Path))

\* The default base URL for the API.
defaultBaseURL == MkURL("https", "api.parse.com", "/1/")

(***************************************************************************)
(* encoding/json as the client uses it.  The texts handled are flat JSON   *)
(* objects and scalars without white space, escapes, signs or fractions:   *)
(* the bodies of the Parse API's answers and of the tests.                 *)
(***************************************************************************)
JOk(next, t, s, n, m) ==
  [err |-> "", eof |-> FALSE, next |-> next, t |-> t, s |-> s, n |-> n, m |-> m]

\* A *json.SyntaxError for the offending character c.
JBad(c, ctx) ==
  [err |-> "invalid character '" \o c \o "' " \o ctx, eof |-> FALSE,
   next |-> 0, t |-> "", s |-> "", n |-> 0, m |-> <<>>]

\* The input ended inside a value.
JEOF ==
  [err |-> "unexpected end of JSON input", eof |-> TRUE,
   next |-> 0, t |-> "", s |-> "", n |-> 0, m |-> <<>>]

\* Index of the last digit of the run of digits starting at i.
RECURSIVE DigitsEnd(_, _)
DigitsEnd(s, i) == IF IsDigit(Ch(s, i + 1)) THEN DigitsEnd(s, i + 1) ELSE i

\* Scan the literal word (true, false, null) at position i, from its k-th character.
RECURSIVE ScanLiteral(_, _, _, _, _, _)
ScanLiteral(s, i, word, k, t, n) ==
  IF k > Len(word) THEN JOk(i + Len(word), t, "", n, <<>>)
  ELSE LET c == Ch(s, i + k - 1)
       IN  IF c = "" THEN JEOF
           ELSE IF c # Ch(word, k)
             THEN JBad(c, "in literal " \o word \o " (expecting '" \o Ch(word, k) \o "')")
           ELSE ScanLiteral(s, i, word, k + 1, t, n)

\* A string, number or literal starting at position i.
ParseScalar(s, i) ==
  LET c == Ch(s, i)
  IN  IF c = "" THEN JEOF
      ELSE IF c = "\""
        THEN LET j == IndexFrom(s, "\"", i + 1)
             IN  IF j = 0 THEN JEOF
                 ELSE JOk(j + 1, "string", SubSeq(s, i + 1, j - 1), 0, <<>>)
      ELSE IF IsDigit(c)
        THEN LET j == DigitsEnd(s, i)
             IN  JOk(j + 1, "number", "", Atoi(SubSeq(s, i, j)), <<>>)
      ELSE IF c = "t" THEN ScanLiteral(s, i, "true", 1, "bool", 1)
      ELSE IF c = "f" THEN ScanLiteral(s, i, "false", 1, "bool", 0)
      ELSE IF c = "n" THEN ScanLiteral(s, i, "null", 1, "null", 0)
      ELSE JBad(c, "looking for beginning of value")

\* The members of an object, position i being just after "{" or ",".
RECURSIVE ParseMembers(_, _, _, _)
ParseMembers(s, i, acc, first) ==
  LET c == Ch(s, i)
      j == IndexFrom(s, "\"", i + 1)
      \* The member whose key ends at j has the value v, followed by d.
      Member(v, d, acc2) ==
        IF v.err # "" THEN v
        ELSE IF d = "" THEN JEOF
        ELSE IF d = "," THEN ParseMembers(s, v.next + 1, acc2, FALSE)
        ELSE IF d = "}" THEN JOk(v.next + 1, "object", "", 0, acc2)
        ELSE JBad(d, "after object key:value pair")
      Value(v) ==
        Member(v, Ch(s, v.next),
               Append(acc, [k |-> SubSeq(s, i + 1, j - 1), t |-> v.t, s |-> v.s,
                            n |-> v.n]))
  IN  IF c = "" THEN JEOF
      ELSE IF first /\ c = "}" THEN JOk(i + 1, "object", "", 0, acc)
      ELSE IF c # "\"" THEN JBad(c, "looking for beginning of object key string")
      ELSE IF j = 0 THEN JEOF
      ELSE IF Ch(s, j + 1) = "" THEN JEOF
      ELSE IF Ch(s, j + 1) # ":" THEN JBad(Ch(s, j + 1), "after object key")
      ELSE Value(ParseScalar(s, j + 2))

\* The first JSON value of s.
ParseValue(s) ==
  IF Ch(s, 1) = "{" THEN ParseMembers(s, 2, <<>>, TRUE) ELSE ParseScalar(s, 1)

\* A *json.UnmarshalTypeError.
TypeError(t, goType) ==
  "json: cannot unmarshal " \o t \o " into Go value of type " \o goType

\* One member of an error body stored into the Error struct: the field tags
\* are json:"error" for Message and json:"code" for Code; other keys are ignored.
StoreErrorField(r, mem) ==
  IF mem.t = "null" THEN r
  ELSE IF mem.k = "error"
    THEN IF mem.t = "string" THEN [r EXCEPT !.v.Message = mem.s]
         ELSE [r EXCEPT !.err = IF r.err = "" THEN TypeError(mem.t, "string") ELSE r.err]
  ELSE IF mem.k = "code"
    THEN IF mem.t = "number" THEN [r EXCEPT !.v.Code = mem.n]
         ELSE [r EXCEPT !.err = IF r.err = "" THEN TypeError(mem.t, "int") ELSE r.err]
  ELSE r

RECURSIVE StoreErrorFields(_, _)
StoreErrorFields(r, mems) ==
  IF Len(mems) = 0 THEN r
  ELSE StoreErrorFields(StoreErrorField(r, Head(mems)), Tail(mems))

\* json.Unmarshal(body, apiErr) for apiErr of type *Error: the error text ("" for
\* nil) and the struct afterwards.
UnmarshalError(data, e) ==
  LET Store(r) ==
        IF r.err # "" THEN [err |-> r.err, v |-> e]
        ELSE IF r.next <= Len(data)
          THEN [err |-> "invalid character '" \o Ch(data, r.next)
                        \o "' after top-level value",
                v |-> e]
        ELSE IF r.t = "null" THEN [err |-> "", v |-> e]
        ELSE IF r.t # "object" THEN [err |-> TypeError(r.t, "parse.Error"), v |-> e]
        ELSE StoreErrorFields([err |-> "", v |-> e], r.m)
  IN  Store(ParseValue(data))

\* A map[string]int without entries.
EmptyMap == [k \in {} |-> 0]

\* m[k] = n
MapSet(m, k, n) == [x \in (DOMAIN m) \cup {k} |-> IF x = k THEN n ELSE m[x]]

StoreMapEntry(r, mem) ==
  IF mem.t = "number" THEN [r EXCEPT !.v = MapSet(r.v, mem.k, mem.n)]
  ELSE IF mem.t = "null" THEN [r EXCEPT !.v = MapSet(r.v, mem.k, 0)]
  ELSE [r EXCEPT !.v = MapSet(r.v, mem.k, 0),
                 !.err = IF r.err = "" THEN TypeError(mem.t, "int") ELSE r.err]

RECURSIVE StoreMapEntries(_, _)
StoreMapEntries(r, mems) ==
  IF Len(mems) = 0 THEN r
  ELSE StoreMapEntries(StoreMapEntry(r, Head(mems)), Tail(mems))

\* json.NewDecoder(res.Body).Decode(result) for result of type *map[string]int,
\* data being everything the body yields: the error text ("" for nil) and the
\* map afterwards.  The decoder reads one value and leaves what follows it.
DecodeMap(data, m) ==
  LET Store(r) ==
        IF data = "" THEN [err |-> "EOF", v |-> m]
        ELSE IF r.eof THEN [err |-> "unexpected EOF", v |-> m]
        ELSE IF r.err # "" THEN [err |-> r.err, v |-> m]
        ELSE IF r.t = "null" THEN [err |-> "", v |-> EmptyMap]
        ELSE IF r.t # "object" THEN [err |-> TypeError(r.t, "map[string]int"), v |-> m]
        ELSE StoreMapEntries([err |-> "", v |-> m], r.m)
  IN  Store(ParseValue(data))

\* The request bodies a caller passes: nil, the value true, a map[int]int
\* (which encoding/json refuses) and a map[string]int.
NilBody == [kind |-> "nil", b |-> FALSE, m |-> EmptyMap]
BoolBody(b) == [kind |-> "bool", b |-> b, m |-> EmptyMap]
IntMapBody == [kind |-> "map[int]int", b |-> FALSE, m |-> EmptyMap]
MapBody(m) == [kind |-> "map[string]int", b |-> FALSE, m |-> m]

\* The keys of the objects exchanged, in sorted order (json.Marshal sorts map keys).
SortedKeys == <<"answer", "score">>

RECURSIVE MarshalEntries(_, _, _)
MarshalEntries(m, keys, first) ==
  IF Len(keys) = 0 THEN ""
  ELSE IF Head(keys) \in DOMAIN m
    THEN (IF first THEN "" ELSE ",")
         \o "\"" \o Head(keys) \o "\":" \o Itoa(m[Head(keys)])
         \o MarshalEntries(m, Tail(keys), FALSE)
  ELSE MarshalEntries(m, Tail(keys), first)

\* json.Marshal(body): the error text ("" for nil) and the bytes.
Marshal(body) ==
  IF body.kind = "bool" THEN [err |-> "", bd |-> IF body.b THEN "true" ELSE "false"]
  ELSE IF body.kind = "map[string]int"
    THEN [err |-> "", bd |-> "{" \o MarshalEntries(body.m, SortedKeys, TRUE) \o "}"]
  ELSE [err |-> "json: unsupported type: " \o body.kind, bd |-> ""]

(***************************************************************************)
(* Requests, responses and the transport.                                  *)
(***************************************************************************)
userAgentHeader == "User-Agent"
userAgent == "go-parse-2015-01-31"
applicationIDHeader == "X-Parse-Application-Id"
masterKeyHeader == "X-Parse-Master-Key"
restAPIKeyHeader == "X-Parse-REST-API-Key"
sessionTokenHeader == "X-Parse-Session-Token"

HeaderNames ==
  {userAgentHeader, applicationIDHeader, masterKeyHeader, restAPIKeyHeader,
   sessionTokenHeader}

\* An http.Header without entries (a nil Header reads the same).
NoHeader == [h \in HeaderNames |-> <<>>]

\* http.Header.Add, Set and Get
HeaderAdd(hd, name, v) == [hd EXCEPT ![name] = Append(@, v)]
HeaderSet(hd, name, v) == [hd EXCEPT ![name] = <<v>>]
HeaderGet(hd, name) == IF Len(hd[name]) = 0 THEN "" ELSE hd[name][1]

\* &http.Request{Method: method, URL: u}
NewRequest(method, u) ==
  [Method |-> method, URL |-> u, Host |-> "", Proto |-> "", ProtoMajor |-> 0,
   ProtoMinor |-> 0, Header |-> NoHeader, hasBody |-> FALSE, Body |-> "",
   ContentLength |-> 0]

\* http.StatusText
StatusText(code) ==
  CASE code = 100 -> "Continue"
    [] code = 200 -> "OK"
    [] code = 201 -> "Created"
    [] code = 400 -> "Bad Request"
    [] code = 401 -> "Unauthorized"
    [] code = 404 -> "Not Found"
    [] code = 500 -> "Internal Server Error"
    [] OTHER -> ""

\* A nil *http.Response.
NilResponse ==
  [nil |-> TRUE, StatusCode |-> 0, Status |-> "", Body |-> "", abort |-> FALSE,
   closed |-> FALSE]

\* An *http.Response as a transport returns it: Body is what remains to be read,
\* abort says that the connection breaks once Body has been read.
MkResponse(code, body, abort) ==
  [nil |-> FALSE, StatusCode |-> code, Status |-> Itoa(code) \o " " \o StatusText(code),
   Body |-> body, abort |-> abort, closed |-> FALSE]

\* ioutil.ReadAll(res.Body): the error text ("" for nil), the bytes read and the
\* response afterwards.
ReadAll(res) ==
  [err |-> IF res.abort THEN "unexpected EOF" ELSE "",
   data |-> res.Body,
   res |-> [res EXCEPT !.Body = ""]]

\* res.Body.Close()
Close(res) == [res EXCEPT !.closed = TRUE]

\* The result destinations a caller passes: nil or a pointer to a map[string]int.
NilResult == [nil |-> TRUE, m |-> EmptyMap]
MapResult(m) == [nil |-> FALSE, m |-> m]

\* json.NewDecoder(res.Body).Decode(result) on a response: as DecodeMap, with the
\* read error of a broken connection when the decoder needs more than Body holds
\* (an object is complete at its closing brace, a scalar only at the next byte).
DecodeBody(res, m) ==
  LET Read(r, d) ==
        [err |-> IF res.abort
                    /\ (res.Body = "" \/ r.eof
                        \/ (r.err = "" /\ r.t # "object" /\ r.next > Len(res.Body)))
                 THEN "unexpected EOF" ELSE d.err,
         v |-> IF res.abort /\ r.err = "" /\ r.t # "object" /\ r.next > Len(res.Body)
               THEN m ELSE d.v,
         res |-> [res EXCEPT !.Body = ""]]
  IN  Read(ParseValue(res.Body), DecodeMap(res.Body, m))

(***************************************************************************)
(* Credentials.                                                            *)
(***************************************************************************)
errEmptyMasterKey == "parse: cannot use empty MasterKey Credentials"
errEmptyRestAPIKey == "parse: cannot use empty RestAPIKey Credentials"
errEmptySessionToken == "parse: cannot use empty SessionToken Credentials"
errEmptyApplicationID == "parse: cannot use empty ApplicationID"

\* A nil Credentials interface and the three strategies.
NoCredentials == [kind |-> "nil", key |-> "", RestAPIKey |-> "", SessionToken |-> ""]
MasterKey(k) == [kind |-> "MasterKey", key |-> k, RestAPIKey |-> "", SessionToken |-> ""]
RestAPIKey(k) == [kind |-> "RestAPIKey", key |-> k, RestAPIKey |-> "", SessionToken |-> ""]
SessionToken(rk, st) ==
  [kind |-> "SessionToken", key |-> "", RestAPIKey |-> rk, SessionToken |-> st]

\* MasterKey.Modify: the error text ("" for nil) and the request afterwards.
MasterKeyModify(m, r) ==
  IF m.key = "" THEN [err |-> errEmptyMasterKey, r |-> r]
  ELSE [err |-> "", r |-> [r EXCEPT !.Header = HeaderSet(@, masterKeyHeader, m.key)]]

\* RestAPIKey.Modify
RestAPIKeyModify(k, r) ==
  IF k.key = "" THEN [err |-> errEmptyRestAPIKey, r |-> r]
  ELSE [err |-> "", r |-> [r EXCEPT !.Header = HeaderSet(@, restAPIKeyHeader, k.key)]]

\* SessionToken.Modify setting the Rest API Key header before it has checked the
\* session token.
SessionTokenModify_SetFirst(t, r) ==
  LET r1 == [r EXCEPT !.Header = HeaderSet(@, restAPIKeyHeader, t.RestAPIKey)]
  IN  IF t.RestAPIKey = "" THEN [err |-> errEmptyRestAPIKey, r |-> r]
      ELSE IF t.SessionToken = "" THEN [err |-> errEmptySessionToken, r |-> r1]
      ELSE [err |-> "",
            r |-> [r1 EXCEPT !.Header = HeaderSet(@, sessionTokenHeader, t.SessionToken)]]

\* SessionToken.Modify checking the session token before the Rest API Key.
SessionTokenModify_TokenFirst(t, r) ==
  IF t.SessionToken = "" THEN [err |-> errEmptySessionToken, r |-> r]
  ELSE IF t.RestAPIKey = "" THEN [err |-> errEmptyRestAPIKey, r |-> r]
  ELSE [err |-> "",
        r |-> [r EXCEPT !.Header = HeaderSet(HeaderSet(@, restAPIKeyHeader, t.RestAPIKey),
                                             sessionTokenHeader, t.SessionToken)]]

\* SessionToken.Modify
SessionTokenModify(t, r) ==
  IF t.RestAPIKey = "" THEN [err |-> errEmptyRestAPIKey, r |-> r]
  ELSE IF t.SessionToken = "" THEN [err |-> errEmptySessionToken, r |-> r]
  ELSE [err |-> "",
        r |-> [r EXCEPT !.Header = HeaderSet(HeaderSet(@, restAPIKeyHeader, t.RestAPIKey),
                                             sessionTokenHeader, t.SessionToken)]]

\* Credentials.Modify, dispatched on the dynamic type.
Modify(cr, r) ==
  CASE cr.kind = "MasterKey" -> MasterKeyModify(cr, r)
    [] cr.kind = "RestAPIKey" -> RestAPIKeyModify(cr, r)
    [] cr.kind = "SessionToken" -> SessionTokenModify(cr, r)

(***************************************************************************)
(* Error values.                                                           *)
(***************************************************************************)
\* A nil error.
NilError ==
  [kind |-> "nil", text |-> "", Message |-> "", Code |-> 0, StatusCode |-> 0,
   request |-> NewRequest("", NilURL), response |-> NilResponse]

\* errors.New(text): the validation errors.
ErrorsNew(text) == [NilError EXCEPT !.kind = "errors", !.text = text]

\* httperr.NewError(actual, httperr.RedactNoOp(), req, res), actual given by its text.
HTTPErr(actual, req, res) ==
  [NilError EXCEPT !.kind = "httperr", !.text = actual, !.request = req,
                   !.response = res]

\* &Error{StatusCode: ..., request: req, response: res}
APIError(statusCode, req, res) ==
  [NilError EXCEPT !.kind = "Error", !.StatusCode = statusCode, !.request = req,
                   !.response = res]

\* The message of an httperr error: method, URL, the status line when there is
\* a response, and the text of the actual error.
HTTPErrString(actual, req, res) ==
  req.Method \o " " \o URLString(req.URL)
  \o (IF res.nil THEN "" ELSE " got " \o res.Status)
  \o " failed with " \o actual

\* (*Error).Error leaving the code out of the message.
ErrorError_NoCode(e) ==
  HTTPErrString(IF e.Message # "" THEN "message " \o e.Message ELSE "",
                e.request, e.response)

\* (*Error).Error writing " and " before every message.
ErrorError_AlwaysAnd(e) ==
  LET buf == (IF e.Code # 0 THEN "code " \o Itoa(e.Code) ELSE "")
             \o (IF e.Message # "" THEN " and " ELSE "")
             \o (IF e.Message # "" THEN "message " \o e.Message ELSE "")
  IN  HTTPErrString(buf, e.request, e.response)

\* (*Error).Error
ErrorError(e) ==
  LET buf == (IF e.Code # 0 THEN "code " \o Itoa(e.Code) ELSE "")
             \o (IF e.Code # 0 /\ e.Message # "" THEN " and " ELSE "")
             \o (IF e.Message # "" THEN "message " \o e.Message ELSE "")
  IN  HTTPErrString(buf, e.request, e.response)

\* err.Error() for the errors Client.Do returns.
ErrorString(e) ==
  CASE e.kind = "errors" -> e.text
    [] e.kind = "httperr" -> HTTPErrString(e.text, e.request, e.response)
    [] e.kind = "Error" -> ErrorError(e)
    [] OTHER -> ""

(***************************************************************************)
(* The client.                                                             *)
(***************************************************************************)
\* Client.transport: the RoundTripper that performs the call.
transport(c) == IF c.Transport = "nil" THEN "http.DefaultTransport" ELSE c.Transport

\* The URL part of Client.Do resolving every relative URL against the default
\* base URL, whatever Client.BaseURL is.
DoResolveURL_DefaultBase(c, req) ==
  IF req.URL.nil
  THEN IF c.BaseURL.nil THEN [req EXCEPT !.URL = defaultBaseURL]
       ELSE [req EXCEPT !.URL = c.BaseURL]
  ELSE IF ~IsAbs(req.URL)
    THEN [req EXCEPT !.URL = ResolveReference(defaultBaseURL, req.URL)]
  ELSE req

\* The URL part of Client.Do: the request with its URL resolved.
DoResolveURL(c, req) ==
  IF req.URL.nil
  THEN IF c.BaseURL.nil THEN [req EXCEPT !.URL = defaultBaseURL]
       ELSE [req EXCEPT !.URL = c.BaseURL]
  ELSE IF ~IsAbs(req.URL)
    THEN IF c.BaseURL.nil
         THEN [req EXCEPT !.URL = ResolveReference(defaultBaseURL, req.URL)]
         ELSE [req EXCEPT !.URL = ResolveReference(c.BaseURL, req.URL)]
  ELSE req

\* What a call returns and leaves behind: the response and the error returned,
\* the caller's request and result destination afterwards, and the requests the
\* transport was handed (each with the RoundTripper that got it).
Outcome(res, err, req, result, wire) ==
  [res |-> res, err |-> err, req |-> req, result |-> result, wire |-> wire]

\* The test of the status code with its upper limit off by one.
IsErrorStatus_OffByOne(code) == code >= 399 \/ code < 200

\* The test of the status code in Client.Do: the response is an error.
IsErrorStatus(code) == code > 399 \/ code < 200

\* Client.Do on a response with an error status returning the error without
\* the response.
DoErrorStatus_NoResponse(req, res, result, wire) ==
  LET rd == ReadAll(res)
      done == Close(rd.res)
      apiErr == APIError(res.StatusCode, req, done)
      Unmarshalled(um) ==
        IF um.err # ""
        THEN Outcome(NilResponse, HTTPErr(um.err, req, done), req, result, wire)
        ELSE Outcome(NilResponse, um.v, req, result, wire)
  IN  IF rd.err # ""
      THEN Outcome(NilResponse, HTTPErr(rd.err, req, done), req, result, wire)
      ELSE IF Len(rd.data) > 0 THEN Unmarshalled(UnmarshalError(rd.data, apiErr))
      ELSE Outcome(NilResponse, apiErr, req, result, wire)

\* Client.Do on a response with an error status returning, when reading the
\* body fails, before the body is closed.
DoErrorStatus_LeaveOpen(req, res, result, wire) ==
  LET rd == ReadAll(res)
      done == Close(rd.res)
      apiErr == APIError(res.StatusCode, req, done)
      Unmarshalled(um) ==
        IF um.err # ""
        THEN Outcome(done, HTTPErr(um.err, req, done), req, result, wire)
        ELSE Outcome(done, um.v, req, result, wire)
  IN  IF rd.err # ""
      THEN Outcome(rd.res, HTTPErr(rd.err, req, rd.res), req, result, wire)
      ELSE IF Len(rd.data) > 0 THEN Unmarshalled(UnmarshalError(rd.data, apiErr))
      ELSE Outcome(done, apiErr, req, result, wire)

\* Client.Do on a response with an error status dropping the error of Unmarshal.
DoErrorStatus_Swallow(req, res, result, wire) ==
  LET rd == ReadAll(res)
      done == Close(rd.res)
      apiErr == APIError(res.StatusCode, req, done)
      Unmarshalled(um) == Outcome(done, um.v, req, result, wire)
  IN  IF rd.err # ""
      THEN Outcome(done, HTTPErr(rd.err, req, done), req, result, wire)
      ELSE IF Len(rd.data) > 0 THEN Unmarshalled(UnmarshalError(rd.data, apiErr))
      ELSE Outcome(done, apiErr, req, result, wire)

\* Client.Do on a response with an error status: the body is read and, when
\* not empty, unmarshalled into an Error.
DoErrorStatus(req, res, result, wire) ==
  LET rd == ReadAll(res)
      done == Close(rd.res)
      apiErr == APIError(res.StatusCode, req, done)
      Unmarshalled(um) ==
        IF um.err # ""
        THEN Outcome(done, HTTPErr(um.err, req, done), req, result, wire)
        ELSE Outcome(done, um.v, req, result, wire)
  IN  IF rd.err # ""
      THEN Outcome(done, HTTPErr(rd.err, req, done), req, result, wire)
      ELSE IF Len(rd.data) > 0 THEN Unmarshalled(UnmarshalError(rd.data, apiErr))
      ELSE Outcome(done, apiErr, req, result, wire)

\* Client.Do on a response with a success status decoding the body even when
\* result is nil.
DoSuccess_AlwaysDecode(req, res, result, wire) ==
  LET Decoded(dec) ==
        LET done == Close(dec.res)
        IN  IF dec.err # ""
            THEN Outcome(done, HTTPErr(dec.err, req, done), req, result, wire)
            ELSE Outcome(done, NilError, req,
                         IF result.nil THEN result ELSE MapResult(dec.v), wire)
  IN  Decoded(DecodeBody(res, result.m))

\* Client.Do on a response with a status in the 2xx or 3xx range: the body is
\* decoded into result unless result is nil.
DoSuccess(req, res, result, wire) ==
  LET Decoded(dec) ==
        LET done == Close(dec.res)
        IN  IF dec.err # ""
            THEN Outcome(done, HTTPErr(dec.err, req, done), req, MapResult(dec.v), wire)
            ELSE Outcome(done, NilError, req, MapResult(dec.v), wire)
  IN  IF ~result.nil
      THEN Decoded(DecodeBody(res, result.m))
      ELSE Outcome(Close(res), NilError, req, result, wire)

\* The identity part of Client.Do going on when Credentials.Modify fails.
DoIdentify_IgnoreModify(c, req) ==
  LET r1 == [req EXCEPT !.Header = HeaderAdd(@, userAgentHeader, userAgent)]
      r2 == [r1 EXCEPT !.Header = HeaderAdd(@, applicationIDHeader, c.ApplicationID)]
  IN  IF c.ApplicationID = "" THEN [err |-> errEmptyApplicationID, r |-> r1]
      ELSE IF c.Credentials.kind # "nil"
        THEN [err |-> "", r |-> Modify(c.Credentials, r2).r]
      ELSE [err |-> "", r |-> r2]

\* The identity part of Client.Do without the application id header.
DoIdentify_NoApplicationID(c, req) ==
  LET r1 == [req EXCEPT !.Header = HeaderAdd(@, userAgentHeader, userAgent)]
  IN  IF c.ApplicationID = "" THEN [err |-> errEmptyApplicationID, r |-> r1]
      ELSE IF c.Credentials.kind # "nil" THEN Modify(c.Credentials, r1)
      ELSE [err |-> "", r |-> r1]

\* The identity part of Client.Do asking the credentials before it looks at the
\* application id.
DoIdentify_CredentialsFirst(c, req) ==
  LET r1 == [req EXCEPT !.Header = HeaderAdd(@, userAgentHeader, userAgent)]
      r2 == [r1 EXCEPT !.Header = HeaderAdd(@, applicationIDHeader, c.ApplicationID)]
      Checked(m) == IF m.err # "" THEN m
                    ELSE IF c.ApplicationID = ""
                      THEN [err |-> errEmptyApplicationID, r |-> r1]
                    ELSE [err |-> "", r |-> Modify(c.Credentials, r2).r]
  IN  IF c.Credentials.kind # "nil" THEN Checked(Modify(c.Credentials, r1))
      ELSE IF c.ApplicationID = "" THEN [err |-> errEmptyApplicationID, r |-> r1]
      ELSE [err |-> "", r |-> r2]

\* The identity part of Client.Do replacing the values of its two headers.
DoIdentify_SetHeaders(c, req) ==
  LET r1 == [req EXCEPT !.Header = HeaderSet(@, userAgentHeader, userAgent)]
      r2 == [r1 EXCEPT !.Header = HeaderSet(@, applicationIDHeader, c.ApplicationID)]
  IN  IF c.ApplicationID = "" THEN [err |-> errEmptyApplicationID, r |-> r1]
      ELSE IF c.Credentials.kind # "nil" THEN Modify(c.Credentials, r2)
      ELSE [err |-> "", r |-> r2]

\* The identity part of Client.Do: the User-Agent and application id headers
\* and the credentials; the error text ("" for nil) and the request afterwards.
DoIdentify(c, req) ==
  LET r1 == [req EXCEPT !.Header = HeaderAdd(@, userAgentHeader, userAgent)]
      r2 == [r1 EXCEPT !.Header = HeaderAdd(@, applicationIDHeader, c.ApplicationID)]
  IN  IF c.ApplicationID = "" THEN [err |-> errEmptyApplicationID, r |-> r1]
      ELSE IF c.Credentials.kind # "nil" THEN Modify(c.Credentials, r2)
      ELSE [err |-> "", r |-> r2]

\* The body part of Client.Do leaving the length of the body undeclared.
DoBody_NoContentLength(req, body) ==
  LET m == Marshal(body)
  IN  IF body.kind # "nil"
      THEN IF m.err # "" THEN [err |-> m.err, r |-> req]
           ELSE [err |-> "", r |-> [req EXCEPT !.hasBody = TRUE, !.Body = m.bd]]
      ELSE [err |-> "", r |-> req]

\* The body part of Client.Do sending no body when Marshal fails.
DoBody_IgnoreMarshal(req, body) ==
  LET m == Marshal(body)
  IN  IF body.kind # "nil" /\ m.err = ""
      THEN [err |-> "",
            r |-> [req EXCEPT !.hasBody = TRUE, !.Body = m.bd,
                              !.ContentLength = Len(m.bd)]]
      ELSE [err |-> "", r |-> req]

\* The body part of Client.Do: the body is buffered as JSON and its length
\* declared; the error text ("" for nil) and the request afterwards.
DoBody(req, body) ==
  LET m == Marshal(body)
  IN  IF body.kind # "nil"
      THEN IF m.err # "" THEN [err |-> m.err, r |-> req]
           ELSE [err |-> "",
                 r |-> [req EXCEPT !.hasBody = TRUE, !.Body = m.bd,
                                   !.ContentLength = Len(m.bd)]]
      ELSE [err |-> "", r |-> req]

\* Client.Do calling the transport a second time when the first call fails.
Do_Retry(c, req, body, result, tr) ==
  LET r1 == [req EXCEPT !.Proto = "HTTP/1.1", !.ProtoMajor = 1, !.ProtoMinor = 1]
      SetHost(r2) == IF r2.Host = "" THEN [r2 EXCEPT !.Host = r2.URL.Host] ELSE r2
      RoundTrip(r, sent) ==
        IF tr.fail
        THEN Outcome(NilResponse, HTTPErr(tr.err, r, NilResponse), r, result,
                     sent \o sent)
        ELSE IF IsErrorStatus(tr.res.StatusCode)
          THEN DoErrorStatus(r, tr.res, result, sent)
        ELSE DoSuccess(r, tr.res, result, sent)
      Send(bd) ==
        IF bd.err # ""
        THEN Outcome(NilResponse, HTTPErr(bd.err, bd.r, NilResponse), bd.r, result, <<>>)
        ELSE RoundTrip(bd.r, <<[via |-> transport(c), req |-> bd.r]>>)
      Identified(id) ==
        IF id.err # ""
        THEN Outcome(NilResponse, ErrorsNew(id.err), id.r, result, <<>>)
        ELSE Send(DoBody(id.r, body))
  IN  Identified(DoIdentify(c, SetHost(DoResolveURL(c, r1))))

\* Client.Do(req, body, result), the transport answering with tr: either an
\* error (tr.fail, with tr.err its text) or the response tr.res.
Do(c, req, body, result, tr) ==
  LET r1 == [req EXCEPT !.Proto = "HTTP/1.1", !.ProtoMajor = 1, !.ProtoMinor = 1]
      SetHost(r2) == IF r2.Host = "" THEN [r2 EXCEPT !.Host = r2.URL.Host] ELSE r2
      RoundTrip(r, sent) ==
        IF tr.fail
        THEN Outcome(NilResponse, HTTPErr(tr.err, r, NilResponse), r, result, sent)
        ELSE IF IsErrorStatus(tr.res.StatusCode)
          THEN DoErrorStatus(r, tr.res, result, sent)
        ELSE DoSuccess(r, tr.res, result, sent)
      Send(bd) ==
        IF bd.err # ""
        THEN Outcome(NilResponse, HTTPErr(bd.err, bd.r, NilResponse), bd.r, result, <<>>)
        ELSE RoundTrip(bd.r, <<[via |-> transport(c), req |-> bd.r]>>)
      Identified(id) ==
        IF id.err # ""
        THEN Outcome(NilResponse, ErrorsNew(id.err), id.r, result, <<>>)
        ELSE Send(DoBody(id.r, body))
  IN  Identified(DoIdentify(c, SetHost(DoResolveURL(c, r1))))

\* Client.WithCredentials keeping the Credentials the receiver has, if any.
WithCredentials_KeepOld(c, cr) ==
  IF c.Credentials.kind # "nil" THEN c ELSE [c EXCEPT !.Credentials = cr]

\* Client.WithCredentials
WithCredentials(c, cr) == [c EXCEPT !.Credentials = cr]

(***************************************************************************)
(* The client with redaction (src/parse.go, lines 1-313): Credentials is a *)
(* struct of keys, Client has the Redact flag, and errors are rendered     *)
(* through Client.redactor.                                                *)
(***************************************************************************)
redactedMasterKey == "-- REDACTED MASTER KEY --"

\* strings.NewReplacer(old, new).Replace(s), old not empty: every occurrence
\* of old, found from left to right without overlap, becomes new.
RECURSIVE Replace(_, _, _)
Replace(s, old, new) ==
  LET at == {i \in 1..(Len(s) - Len(old) + 1) : SubSeq(s, i, i + Len(old) - 1) = old}
      Cut(i) ==
        SubSeq(s, 1, i - 1) \o new \o Replace(SubSeq(s, i + Len(old), Len(s)), old, new)
  IN  IF at = {} THEN s
      ELSE Cut(CHOOSE i \in at : \A j \in at : i <= j)

\* httperr.RedactNoOp() and the Replace method of a httperr.Redactor.
RedactNoOp == [old |-> "", new |-> ""]

RedactorReplace(rd, s) == IF rd.old = "" THEN s ELSE Replace(s, rd.old, rd.new)

\* Client.redactor leaving every text as it is.
redactor_NoOp(c) == RedactNoOp

\* Client.redactor
redactor(c) ==
  IF ~c.Redact \/ c.Credentials.MasterKey = "" THEN RedactNoOp
  ELSE [old |-> c.Credentials.MasterKey, new |-> redactedMasterKey]

\* The Credentials struct (the keys Client.Do and Client.redactor read).
CredentialsStruct(appID, restKey, jsKey, masterKey) ==
  [ApplicationID |-> appID, RestApiKey |-> restKey, JavaScriptKey |-> jsKey,
   MasterKey |-> masterKey]

\* httperr.NewError(actual, rd, req, res), actual given by its text.
RedactHTTPErr(actual, rd, req, res) ==
  [kind |-> "httperr", text |-> actual, Message |-> "", Code |-> 0,
   request |-> req, response |-> res, redactor |-> rd, client |-> <<>>]

\* &Error{request: req, response: res, client: c}
RedactAPIError(c, req, res) ==
  [kind |-> "Error", text |-> "", Message |-> "", Code |-> 0,
   request |-> req, response |-> res, redactor |-> RedactNoOp, client |-> c]

\* The message of an httperr error: the URL and the text of the actual error
\* pass through the redactor.
RedactHTTPErrString(actual, rd, req, res) ==
  req.Method \o " " \o RedactorReplace(rd, URLString(req.URL))
  \o (IF res.nil THEN "" ELSE " got " \o res.Status)
  \o " failed with " \o RedactorReplace(rd, actual)

\* The text (*Error).Error hands to httperr.
ErrorBuf(e) ==
  (IF e.Code # 0 THEN "code " \o Itoa(e.Code) ELSE "")
  \o (IF e.Code # 0 /\ e.Message # "" THEN " and " ELSE "")
  \o (IF e.Message # "" THEN "message " \o e.Message ELSE "")

\* (*Error).Error
RedactErrorError(e) ==
  RedactHTTPErrString(ErrorBuf(e), redactor(e.client), e.request, e.response)

\* err.Error() for the errors this Client.Do returns.
RedactErrorString(e) ==
  CASE e.kind = "httperr" -> RedactHTTPErrString(e.text, e.redactor, e.request, e.response)
    [] e.kind = "Error" -> RedactErrorError(e)
    [] OTHER -> ""

\* io.Copy(ioutil.Discard, res.Body): the error text ("" for nil) and the
\* response afterwards.
Discard(res) ==
  [err |-> IF res.abort THEN "unexpected EOF" ELSE "",
   res |-> [res EXCEPT !.Body = ""]]

\* The header part of this Client.Do: the application id and the REST API key
\* of the Credentials are added.
RedactDoHeaders(c, req) ==
  [req EXCEPT !.Header =
     HeaderAdd(HeaderAdd(@, applicationIDHeader, c.Credentials.ApplicationID),
               restAPIKeyHeader, c.Credentials.RestApiKey)]

\* This Client.Do on a response with an error status: the body is read and
\* unmarshalled into an Error.
RedactDoErrorStatus(c, req, res, result, wire) ==
  LET rd == ReadAll(res)
      done == Close(rd.res)
      Unmarshalled(um) ==
        IF um.err # ""
        THEN Outcome(done, RedactHTTPErr(um.err, redactor(c), req, done), req, result, wire)
        ELSE Outcome(done, um.v, req, result, wire)
  IN  IF rd.err # ""
      THEN Outcome(done, RedactHTTPErr(rd.err, redactor(c), req, done), req, result, wire)
      ELSE Unmarshalled(UnmarshalError(rd.data, RedactAPIError(c, req, done)))

\* This Client.Do on a response with a status in the 2xx or 3xx range: the body
\* is discarded when result is nil and decoded into result otherwise.
RedactDoSuccess(c, req, res, result, wire) ==
  LET Read(rd, v) ==
        LET done == Close(rd.res)
        IN  IF rd.err # ""
            THEN Outcome(done, RedactHTTPErr(rd.err, redactor(c), req, done), req, v, wire)
            ELSE Outcome(done, NilError, req, v, wire)
      Decoded(dec) == Read(dec, MapResult(dec.v))
  IN  IF result.nil THEN Read(Discard(res), result)
      ELSE Decoded(DecodeBody(res, result.m))

\* This Client.Do handing the transport a request whose URL has gone through
\* the redactor.
RedactDo_RedactRequest(c, req, body, result, tr) ==
  LET r1 == [req EXCEPT !.Proto = "HTTP/1.1", !.ProtoMajor = 1, !.ProtoMinor = 1]
      SetHost(r2) == IF r2.Host = "" THEN [r2 EXCEPT !.Host = r2.URL.Host] ELSE r2
      RoundTrip(r, sent) ==
        IF tr.fail
        THEN Outcome(NilResponse, RedactHTTPErr(tr.err, redactor(c), r, NilResponse),
                     r, result, sent)
        ELSE IF IsErrorStatus(tr.res.StatusCode)
          THEN RedactDoErrorStatus(c, r, tr.res, result, sent)
        ELSE RedactDoSuccess(c, r, tr.res, result, sent)
      Send(bd) ==
        IF bd.err # ""
        THEN Outcome(NilResponse, RedactHTTPErr(bd.err, redactor(c), bd.r, NilResponse),
                     bd.r, result, <<>>)
        ELSE RoundTrip(bd.r, <<[via |-> c.Transport, req |-> [bd.r EXCEPT !.URL.Path = RedactorReplace(redactor(c), @)]]>>)
  IN  Send(DoBody(RedactDoHeaders(c, SetHost(DoResolveURL(c, r1))), body))

\* Client.Do(req, body, result) of src/parse.go lines 231-305, the transport
\* answering with tr.
RedactDo(c, req, body, result, tr) ==
  LET r1 == [req EXCEPT !.Proto = "HTTP/1.1", !.ProtoMajor = 1, !.ProtoMinor = 1]
      SetHost(r2) == IF r2.Host = "" THEN [r2 EXCEPT !.Host = r2.URL.Host] ELSE r2
      RoundTrip(r, sent) ==
        IF tr.fail
        THEN Outcome(NilResponse, RedactHTTPErr(tr.err, redactor(c), r, NilResponse),
                     r, result, sent)
        ELSE IF IsErrorStatus(tr.res.StatusCode)
          THEN RedactDoErrorStatus(c, r, tr.res, result, sent)
        ELSE RedactDoSuccess(c, r, tr.res, result, sent)
      Send(bd) ==
        IF bd.err # ""
        THEN Outcome(NilResponse, RedactHTTPErr(bd.err, redactor(c), bd.r, NilResponse),
                     bd.r, result, <<>>)
        ELSE RoundTrip(bd.r, <<[via |-> c.Transport, req |-> bd.r]>>)
  IN  Send(DoBody(RedactDoHeaders(c, SetHost(DoResolveURL(c, r1))), body))

(***************************************************************************)
(* The path-based client (src/parse.go, lines 315-741): Do takes a method  *)
(* and a path, its errors are Error, redactError and internalError, and    *)
(* their messages are redacted by redactIf.                                *)
(***************************************************************************)
redactedJavaScriptKey == "-- REDACTED JAVASCRIPT KEY --"

\* strings.NewReplacer(old1, new1, old2, new2).Replace(s), an empty old
\* standing for a pair that was not given: the leftmost occurrence of either
\* is replaced first, the first pair winning at equal positions.
RECURSIVE ReplacePairs(_, _, _, _, _)
ReplacePairs(s, old1, new1, old2, new2) ==
  LET Occurs(old) ==
        IF old = "" THEN {}
        ELSE {i \in 1..(Len(s) - Len(old) + 1) : SubSeq(s, i, i + Len(old) - 1) = old}
      Least(at) == CHOOSE i \in at : \A j \in at : i <= j
      Cut(i, old, new) ==
        SubSeq(s, 1, i - 1) \o new
        \o ReplacePairs(SubSeq(s, i + Len(old), Len(s)), old1, new1, old2, new2)
      First(at1, at2) ==
        IF at1 = {} /\ at2 = {} THEN s
        ELSE IF at2 = {} THEN Cut(Least(at1), old1, new1)
        ELSE IF at1 = {} THEN Cut(Least(at2), old2, new2)
        ELSE IF Least(at1) <= Least(at2) THEN Cut(Least(at1), old1, new1)
        ELSE Cut(Least(at2), old2, new2)
  IN  First(Occurs(old1), Occurs(old2))

\* redactIf(c, s)
redactIf(c, s) ==
  IF c.Redact
  THEN ReplacePairs(s, c.Credentials.JavaScriptKey, redactedJavaScriptKey,
                    c.Credentials.MasterKey, redactedMasterKey)
  ELSE s

\* url.Parse(p) for a path without scheme, host and query: the error text ("" for
\* nil) and the URL.  A path that begins with a colon has no scheme to name.
URLParse(p) ==
  IF Ch(p, 1) = ":"
  THEN [err |-> "parse " \o p \o ": missing protocol scheme", u |-> NilURL]
  ELSE [err |-> "", u |-> MkURL("", "", p)]

\* Client.URL(p)
PathURL(c, p) ==
  LET Resolve(pr) ==
        IF pr.err # "" THEN pr
        ELSE [err |-> "",
              u |-> IF c.BaseURL.nil THEN ResolveReference(defaultBaseURL, pr.u)
                    ELSE ResolveReference(c.BaseURL, pr.u)]
  IN  Resolve(URLParse(p))

\* &internalError{path: path, actual: err, client: c}
InternalErrorPath(c, path, actual) ==
  [kind |-> "internalError", path |-> path, hasRequest |-> FALSE,
   request |-> NewRequest("", NilURL), response |-> NilResponse, actual |-> actual,
   Message |-> "", Code |-> 0, client |-> c]

\* &internalError{request: req, response: res, actual: err, client: c}
InternalErrorRequest(c, req, res, actual) ==
  [kind |-> "internalError", path |-> "", hasRequest |-> TRUE, request |-> req,
   response |-> res, actual |-> actual, Message |-> "", Code |-> 0, client |-> c]

\* &redactError{actual: err, client: c}
RedactError(c, actual) ==
  [kind |-> "redactError", path |-> "", hasRequest |-> FALSE,
   request |-> NewRequest("", NilURL), response |-> NilResponse, actual |-> actual,
   Message |-> "", Code |-> 0, client |-> c]

\* &Error{request: req, response: res, client: c}
PathAPIError(c, req, res) ==
  [kind |-> "Error", path |-> "", hasRequest |-> TRUE, request |-> req,
   response |-> res, actual |-> "", Message |-> "", Code |-> 0, client |-> c]

\* No error.
PathNilError ==
  [kind |-> "nil", path |-> "", hasRequest |-> FALSE,
   request |-> NewRequest("", NilURL), response |-> NilResponse, actual |-> "",
   Message |-> "", Code |-> 0, client |-> <<>>]

\* Client.NewRequest(method, path, value): the error (PathNilError for nil)
\* and the request.
PathNewRequest(c, method, path, value) ==
  LET Build(pu) ==
        LET r == [NewRequest(method, pu.u) EXCEPT
                    !.Proto = "HTTP/1.1", !.ProtoMajor = 1, !.ProtoMinor = 1,
                    !.Host = pu.u.Host,
                    !.Header = HeaderSet(HeaderSet(@, applicationIDHeader,
                                                   c.Credentials.ApplicationID),
                                         restAPIKeyHeader, c.Credentials.RestApiKey)]
            Encoded(bd) ==
              IF bd.err # ""
              THEN [err |-> InternalErrorPath(c, path, bd.err), r |-> NewRequest("", NilURL)]
              ELSE [err |-> PathNilError, r |-> bd.r]
        IN  IF pu.err # ""
            THEN [err |-> InternalErrorPath(c, path, pu.err), r |-> NewRequest("", NilURL)]
            ELSE Encoded(DoBody(r, value))
  IN  Build(PathURL(c, path))

\* The text of the *url.Error that http.Client.Do returns for the transport
\* error text: the operation is the method with its first letter only in
\* upper case.
HttpClientError(req, text) ==
  (CASE req.Method = "GET" -> "Get"
     [] req.Method = "POST" -> "Post"
     [] req.Method = "PUT" -> "Put"
     [] req.Method = "DELETE" -> "Delete"
     [] OTHER -> req.Method)
  \o " " \o URLString(req.URL) \o ": " \o text

\* Client.Transport(req, result), the HttpClient answering with tr: an error
\* (tr.fail), or the response tr.res after it has read the body of the request
\* (tr.sent) or without reading it.  The request afterwards holds what is left
\* of its body; the response of an error status gets its body back in a buffer.
PathTransport(c, req, result, tr) ==
  LET after == IF tr.sent THEN [req EXCEPT !.Body = ""] ELSE req
      sent == <<[via |-> c.HttpClient, req |-> req]>>
      ErrorStatus(rd) ==
        LET done == Close(rd.res)
            kept == [done EXCEPT !.Body = rd.data]
            Unmarshalled(um) ==
              IF um.err # ""
              THEN Outcome(kept, InternalErrorRequest(c, after, kept, um.err), after,
                           result, sent)
              ELSE Outcome(kept, um.v, after, result, sent)
        IN  IF rd.err # ""
            THEN Outcome(done, InternalErrorRequest(c, after, done, rd.err), after,
                         result, sent)
            ELSE Unmarshalled(UnmarshalError(rd.data, PathAPIError(c, after, kept)))
      Read(rd, v) ==
        LET done == Close(rd.res)
        IN  IF rd.err # ""
            THEN Outcome(done, InternalErrorRequest(c, after, done, rd.err), after, v,
                         sent)
            ELSE Outcome(done, PathNilError, after, v, sent)
      Decoded(dec) == Read(dec, MapResult(dec.v))
  IN  IF tr.fail
      THEN Outcome(NilResponse, RedactError(c, HttpClientError(req, tr.err)), after,
                   result, sent)
      ELSE IF IsErrorStatus(tr.res.StatusCode) THEN ErrorStatus(ReadAll(tr.res))
      ELSE IF result.nil THEN Read(Discard(tr.res), result)
      ELSE Decoded(DecodeBody(tr.res, result.m))

\* Client.Do(method, path, value, result)
PathDo(c, method, path, value, result, tr) ==
  LET Made(nr) ==
        IF nr.err.kind # "nil"
        THEN Outcome(NilResponse, nr.err, nr.r, result, <<>>)
        ELSE PathTransport(c, nr.r, result, tr)
  IN  Made(PathNewRequest(c, method, path, value))

\* What rendering a message gives: a text, or a panic of the run time.
Rendered(text) == [panic |-> FALSE, text |-> text]
Panics == [panic |-> TRUE, text |-> ""]

\* ioutil.ReadAll(e.request.Body) while a message is rendered, with the text
\* that goes in front of the bytes: a request without Body makes ReadAll call
\* Read on a nil io.Reader.
RenderRequestBody(head, r, body) ==
  IF ~r.hasBody THEN Panics
  ELSE IF Len(r.Body) > 0 THEN Rendered(head \o " body " \o body)
  ELSE Rendered(head \o " no body")

\* (*Error).Error of the path-based client
PathErrorError(e) ==
  LET head ==
        e.request.Method \o " request for URL "
        \o redactIf(e.client, URLString(e.request.URL)) \o " failed with"
        \o (IF e.Code # 0 THEN " code " \o Itoa(e.Code)
            ELSE IF ~e.response.nil THEN " http status " \o e.response.Status
            ELSE "")
        \o " and"
  IN  IF e.Message # "" THEN Rendered(head \o " message " \o redactIf(e.client, e.Message))
      ELSE RenderRequestBody(head, e.request, redactIf(e.client, e.request.Body))

\* (*redactError).Error
redactErrorError(e) == Rendered(redactIf(e.client, e.actual))

\* (*internalError).Error
internalErrorError(e) ==
  LET head ==
        (IF ~e.hasRequest THEN "request for path \"" \o e.path \o "\""
         ELSE e.request.Method \o " request for URL \""
              \o redactIf(e.client, URLString(e.request.URL)) \o "\"")
        \o " failed with error " \o redactIf(e.client, e.actual)
  IN  IF e.response.nil THEN Rendered(head)
      ELSE RenderRequestBody(head \o " http status " \o e.response.Status \o " ("
                               \o Itoa(e.response.StatusCode) \o ")" \o " and",
                             e.request, e.request.Body)

\* err.Error() for the errors the path-based Client.Do returns.
PathErrorString(e) ==
  CASE e.kind = "Error" -> PathErrorError(e)
    [] e.kind = "redactError" -> redactErrorError(e)
    [] e.kind = "internalError" -> internalErrorError(e)
    [] OTHER -> Rendered("")

\* The error e once its message has been rendered: ioutil.ReadAll has read the
\* Body of the request to its end where the rendering reads it.
PathErrorRead(e) ==
  IF /\ e.request.hasBody
     /\ \/ e.kind = "Error" /\ e.Message = ""
        \/ e.kind = "internalError" /\ ~e.response.nil
  THEN [e EXCEPT !.request.Body = ""]
  ELSE e

\* ObjectClass.Path(id) for a class name and an id without slashes and dots:
\* path.Join leaves out the empty elements.
ObjectClassPath(className, id) ==
  "classes"
  \o (IF className = "" THEN "" ELSE "/" \o className)
  \o (IF id = "" THEN "" ELSE "/" \o id)

(***************************************************************************)
(* Client.Do step by step, for callers that run at the same time.  The     *)
(* memory the callers share holds the Client and the package's             *)
(* defaultBaseURL; every step reads them there and gives the memory back   *)
(* as it leaves it.  The objects a request points to (its URL, its Header, *)
(* the reader of its Body) are named by who made them.                     *)
(***************************************************************************)
SharedMemory(c) == [Client |-> c, defaultBaseURL |-> defaultBaseURL]

\* No object (a nil pointer), an object of the caller or of the call made by
\* the caller named, the package's defaultBaseURL and the Client's BaseURL.
NoObject == <<"nil", "nil">>
ObjectOf(by, name) == <<by, name>>
DefaultBaseURLObject == <<"package", "defaultBaseURL">>
BaseURLObject == <<"Client", "BaseURL">>

\* The objects of the request &http.Request{Method: ..., URL: u} that the
\* caller named passes.
CallerObjects(by, r) ==
  [URL |-> IF r.URL.nil THEN NoObject ELSE ObjectOf(by, "URL"),
   Header |-> ObjectOf(by, "Header"),
   Body |-> NoObject]

\* The opening of Client.Do with BaseURL filled in on first use.
DoOpen_SetBaseURL(mem, by, r, objs) ==
  LET c == mem.Client
      r1 == [r EXCEPT !.Proto = "HTTP/1.1", !.ProtoMajor = 1, !.ProtoMinor = 1]
      base == IF c.BaseURL.nil THEN mem.defaultBaseURL ELSE c.BaseURL
      SetHost(r2) == IF r2.Host = "" THEN [r2 EXCEPT !.Host = r2.URL.Host] ELSE r2
  IN  [mem |-> [mem EXCEPT !.Client.BaseURL = base],
       r |-> SetHost(IF r.URL.nil THEN [r1 EXCEPT !.URL = base]
                     ELSE IF ~IsAbs(r.URL)
                       THEN [r1 EXCEPT !.URL = ResolveReference(base, r.URL)]
                     ELSE r1),
       objs |-> [objs EXCEPT !.URL =
                   IF r.URL.nil THEN BaseURLObject
                   ELSE IF ~IsAbs(r.URL) THEN ObjectOf(by, "resolved URL")
                   ELSE @]]

\* The opening of Client.Do: the protocol, the URL and the Host of the request.
\* A request without URL is given the pointer to the base URL itself, a
\* relative URL is replaced by a new one.
DoOpen(mem, by, r, objs) ==
  LET c == mem.Client
      r1 == [r EXCEPT !.Proto = "HTTP/1.1", !.ProtoMajor = 1, !.ProtoMinor = 1]
      base == IF c.BaseURL.nil THEN mem.defaultBaseURL ELSE c.BaseURL
      SetHost(r2) == IF r2.Host = "" THEN [r2 EXCEPT !.Host = r2.URL.Host] ELSE r2
  IN  [mem |-> mem,
       r |-> SetHost(IF r.URL.nil THEN [r1 EXCEPT !.URL = base]
                     ELSE IF ~IsAbs(r.URL)
                       THEN [r1 EXCEPT !.URL = ResolveReference(base, r.URL)]
                     ELSE r1),
       objs |-> [objs EXCEPT !.URL =
                   IF r.URL.nil
                   THEN (IF c.BaseURL.nil THEN DefaultBaseURLObject ELSE BaseURLObject)
                   ELSE IF ~IsAbs(r.URL) THEN ObjectOf(by, "resolved URL")
                   ELSE @]]

\* The identity part of Client.Do, on the shared memory.
DoIdentifyStep(mem, by, r, objs) ==
  LET Identified(id) == [mem |-> mem, err |-> id.err, r |-> id.r, objs |-> objs]
  IN  Identified(DoIdentify(mem.Client, r))

\* The body part of Client.Do, on the shared memory: the body gets a reader of
\* its own.
DoBodyStep(mem, by, r, objs, body) ==
  LET Encoded(bd) ==
        [mem |-> mem, err |-> bd.err, r |-> bd.r,
         objs |-> IF body.kind # "nil" /\ bd.err = ""
                  THEN [objs EXCEPT !.Body = ObjectOf(by, "Body")] ELSE objs]
  IN  Encoded(DoBody(r, body))

\* c.transport().RoundTrip(req), on the shared memory: the request handed over
\* and the RoundTripper that gets it.
DoRoundTripStep(mem, r) ==
  [mem |-> mem, sent |-> <<[via |-> transport(mem.Client), req |-> r]>>]

(***************************************************************************)
(* The service the client talks to, as the round trip of the tests needs   *)
(* it: a store of objects.  A POST creates an object that holds the bytes  *)
(* sent and answers with its identifier, a GET answers with the bytes the  *)
(* object holds, a PUT replaces them, a DELETE removes the object.  The    *)
(* store names its objects by numbers, so that the answer of a POST        *)
(* decodes into a map[string]int.                                          *)
(***************************************************************************)
EmptyStore == [next |-> 1, objects |-> <<>>]

\* The store after the request sent, and its answer.
StoreAnswer(store, sent) ==
  LET at == URLString(sent.URL)
      With(code, body) ==
        [fail |-> FALSE, err |-> "", res |-> MkResponse(code, body, FALSE)]
      made ==
        at \o (IF Ch(at, Len(at)) = "/" THEN "" ELSE "/") \o Itoa(store.next)
      NotFound(what) ==
        [store |-> store,
         tr |-> With(404, "{\"code\":101,\"error\":\"object not found for " \o what
                            \o "\"}")]
  IN  CASE sent.Method = "POST" ->
             [store |-> [next |-> store.next + 1,
                         objects |-> (made :> sent.Body) @@ store.objects],
              tr |-> With(201, "{\"objectId\":" \o Itoa(store.next) \o "}")]
        [] sent.Method = "GET" ->
             IF at \in DOMAIN store.objects
             THEN [store |-> store, tr |-> With(200, store.objects[at])]
             ELSE NotFound("get")
        [] sent.Method = "PUT" ->
             IF at \in DOMAIN store.objects
             THEN [store |-> [store EXCEPT !.objects[at] = sent.Body],
                   tr |-> With(200, "{}")]
             ELSE NotFound("update")
        [] OTHER ->
             IF at \in DOMAIN store.objects
             THEN [store |-> [store EXCEPT !.objects =
                                [k \in (DOMAIN store.objects) \ {at} |-> store.objects[k]]],
                   tr |-> With(200, "{}")]
             ELSE NotFound("delete")

(***************************************************************************)
(* Query parameters (src/options.go, and src/unnamed/part_004 for the      *)
(* version built on urlbuild).  A url.Values is given by the values of     *)
(* each key, in the order they were added; a key without values is absent. *)
(***************************************************************************)
ValueKeys == {"include", "order", "limit", "count", "skip", "keys", "where"}

\* make(url.Values)
NoValues == [k \in ValueKeys |-> <<>>]

\* url.Values.Add
ValuesAdd(v, k, s) == [v EXCEPT ![k] = Append(@, s)]

\* strings.Join
RECURSIVE Join(_, _)
Join(list, sep) ==
  IF Len(list) = 0 THEN ""
  ELSE IF Len(list) = 1 THEN list[1]
  ELSE list[1] \o sep \o Join(Tail(list), sep)

\* The Params: each holds the argument of its constructor.
ParamInclude(include) ==
  [kind |-> "include", list |-> include, s |-> "", n |-> 0, b |-> FALSE, value |-> NilBody]
ParamOrder(order) ==
  [kind |-> "order", list |-> <<>>, s |-> order, n |-> 0, b |-> FALSE, value |-> NilBody]
ParamLimit(limit) ==
  [kind |-> "limit", list |-> <<>>, s |-> "", n |-> limit, b |-> FALSE, value |-> NilBody]
ParamCount(include) ==
  [kind |-> "count", list |-> <<>>, s |-> "", n |-> 0, b |-> include, value |-> NilBody]
ParamSkip(skip) ==
  [kind |-> "skip", list |-> <<>>, s |-> "", n |-> skip, b |-> FALSE, value |-> NilBody]
ParamKeys(keys) ==
  [kind |-> "keys", list |-> keys, s |-> "", n |-> 0, b |-> FALSE, value |-> NilBody]
ParamWhere(value) ==
  [kind |-> "where", list |-> <<>>, s |-> "", n |-> 0, b |-> FALSE, value |-> value]

\* The set methods with paramSkip sending 0 as well.
paramSet_SkipZero(p, v) ==
  LET Where(m) == IF m.err # "" THEN [err |-> m.err, v |-> v]
                  ELSE [err |-> "", v |-> ValuesAdd(v, "where", m.bd)]
  IN  CASE p.kind = "include" ->
             [err |-> "",
              v |-> IF Len(p.list) # 0 THEN ValuesAdd(v, "include", Join(p.list, ","))
                    ELSE v]
        [] p.kind = "order" ->
             [err |-> "", v |-> IF p.s # "" THEN ValuesAdd(v, "order", p.s) ELSE v]
        [] p.kind = "limit" -> [err |-> "", v |-> ValuesAdd(v, "limit", Itoa(p.n))]
        [] p.kind = "count" ->
             [err |-> "", v |-> IF p.b THEN ValuesAdd(v, "count", "1") ELSE v]
        [] p.kind = "skip" -> [err |-> "", v |-> ValuesAdd(v, "skip", Itoa(p.n))]
        [] p.kind = "keys" ->
             [err |-> "",
              v |-> IF Len(p.list) # 0 THEN ValuesAdd(v, "keys", Join(p.list, ","))
                    ELSE v]
        [] p.kind = "where" -> Where(Marshal(p.value))

\* p.set(v) for each kind of Param: the error text ("" for nil) and the values
\* afterwards.
paramSet(p, v) ==
  LET Where(m) == IF m.err # "" THEN [err |-> m.err, v |-> v]
                  ELSE [err |-> "", v |-> ValuesAdd(v, "where", m.bd)]
  IN  CASE p.kind = "include" ->
             [err |-> "",
              v |-> IF Len(p.list) # 0 THEN ValuesAdd(v, "include", Join(p.list, ","))
                    ELSE v]
        [] p.kind = "order" ->
             [err |-> "", v |-> IF p.s # "" THEN ValuesAdd(v, "order", p.s) ELSE v]
        [] p.kind = "limit" -> [err |-> "", v |-> ValuesAdd(v, "limit", Itoa(p.n))]
        [] p.kind = "count" ->
             [err |-> "", v |-> IF p.b THEN ValuesAdd(v, "count", "1") ELSE v]
        [] p.kind = "skip" ->
             [err |-> "", v |-> IF p.n # 0 THEN ValuesAdd(v, "skip", Itoa(p.n)) ELSE v]
        [] p.kind = "keys" ->
             [err |-> "",
              v |-> IF Len(p.list) # 0 THEN ValuesAdd(v, "keys", Join(p.list, ","))
                    ELSE v]
        [] p.kind = "where" -> Where(Marshal(p.value))

\* ParamValues(params...): the error text ("" for nil) and the values, which
\* are nil when there is an error.
RECURSIVE ParamValues(_)
ParamValues(params) ==
  LET Set(before, p) ==
        LET Done(o) == IF o.err # "" THEN [err |-> o.err, nil |-> TRUE, v |-> NoValues]
                       ELSE [err |-> "", nil |-> FALSE, v |-> o.v]
        IN  IF before.err # "" THEN before ELSE Done(paramSet(p, before.v))
  IN  IF Len(params) = 0 THEN [err |-> "", nil |-> FALSE, v |-> NoValues]
      ELSE Set(ParamValues(SubSeq(params, 1, Len(params) - 1)), params[Len(params)])

\* What the constructor of the urlbuild version returns for the argument that
\* the Param p holds: urlbuild.Nil(), or a key with its value (ParamCount takes
\* no argument there), or the error of the JSON encoding.
UrlbuildParam(p) ==
  LET Nil == [nil |-> TRUE, key |-> "", value |-> "", err |-> ""]
      String(k, s) == [nil |-> FALSE, key |-> k, value |-> s, err |-> ""]
      JSON(k, m) == [nil |-> FALSE, key |-> k, value |-> m.bd, err |-> m.err]
  IN  CASE p.kind = "include" ->
             IF Len(p.list) = 0 THEN Nil ELSE String("include", Join(p.list, ","))
        [] p.kind = "order" -> IF p.s = "" THEN Nil ELSE String("order", p.s)
        [] p.kind = "limit" -> String("limit", Itoa(p.n))
        [] p.kind = "count" -> String("count", "1")
        [] p.kind = "skip" -> IF p.n = 0 THEN Nil ELSE String("skip", Itoa(p.n))
        [] p.kind = "keys" ->
             IF Len(p.list) = 0 THEN Nil ELSE String("keys", Join(p.list, ","))
        [] p.kind = "where" -> JSON("where", Marshal(p.value))

\* urlbuild.MakeValues(params)
RECURSIVE MakeValues(_)
MakeValues(params) ==
  LET Set(before, p) ==
        IF before.err # "" THEN before
        ELSE IF p.nil THEN before
        ELSE IF p.err # "" THEN [err |-> p.err, nil |-> TRUE, v |-> NoValues]
        ELSE [before EXCEPT !.v = ValuesAdd(@, p.key, p.value)]
  IN  IF Len(params) = 0 THEN [err |-> "", nil |-> FALSE, v |-> NoValues]
      ELSE Set(MakeValues(SubSeq(params, 1, Len(params) - 1)), params[Len(params)])

(***************************************************************************)
(* The inputs: what callers configure and pass, and what transports answer.*)
(***************************************************************************)
ApplicationIDs == {"", "app"}

CredentialsSet ==
  {NoCredentials}
  \cup {MasterKey(k) : k \in {"", "mk"}}
  \cup {RestAPIKey(k) : k \in {"", "rk"}}
  \cup {SessionToken(rk, st) : rk \in {"", "rk"}, st \in {"", "st"}}

BaseURLs ==
  {NilURL, MkURL("", "", "/1/"), MkURL("https", "api.parse.com", "/1/classes/Foo/")}

\* Client.Transport: nil (http.DefaultTransport is used) or a RoundTripper of the
\* caller's.
Transports == {"nil", "transportFunc"}

Clients ==
  [Transport : Transports, BaseURL : BaseURLs, ApplicationID : ApplicationIDs,
   Credentials : CredentialsSet]

RequestURLs ==
  {NilURL, MkURL("", "", "Foo"), MkURL("", "", "/"), MkURL("", "", "../users"),
   MkURL("https", "www.example.com", "/x")}

Bodies == {NilBody, BoolBody(TRUE), IntMapBody, MapBody("answer" :> 42)}

Results == {NilResult, MapResult(EmptyMap)}

StatusCodes == {100, 199, 200, 201, 399, 400, 404, 500}

ResponseBodies ==
  {"", "<html>",
   "{\"code\":101,\"error\":\"object not found for get\"}",
   "{\"code\":101,\"message\":\"object not found for get\"}",
   "{\"error\":\"unauthorized\"}",
   "{\"answer\":42}",
   "{\"answer\":"}

\* What a RoundTripper answers: an error, a response, or a response whose
\* connection breaks before the announced length has arrived.
TransportError == [fail |-> TRUE, err |-> "hello world", res |-> NilResponse]

Answer(code, body, abort) ==
  [fail |-> FALSE, err |-> "", res |-> MkResponse(code, body, abort)]

RoundTrips ==
  {TransportError}
  \cup {Answer(code, b, FALSE) : code \in StatusCodes, b \in ResponseBodies}
  \cup {Answer(code, "aaa", TRUE) : code \in StatusCodes}

\* The answers of the tests' transports: an error, a result, a connection that
\* breaks, an API error and an error page.
PlainRoundTrips ==
  {TransportError,
   Answer(200, "{\"answer\":42}", FALSE),
   Answer(200, "aaa", TRUE),
   Answer(404, "{\"code\":101,\"error\":\"object not found for get\"}", FALSE),
   Answer(404, "<html>", FALSE)}

\* Clients whose identity is in order, the URLs and the bodies of their calls:
\* the callers whose requests the transport answers.
AnsweredClients ==
  {c \in Clients : /\ c.ApplicationID # ""
                   /\ c.Credentials \in {NoCredentials, RestAPIKey("rk")}
                   /\ c.BaseURL \in {NilURL, MkURL("", "", "/1/")}}

AnsweredURLs == {NilURL, MkURL("", "", "Foo")}

AnsweredBodies == {NilBody, BoolBody(TRUE)}

AnsweredCredentials == {NoCredentials, RestAPIKey("rk")}

\* Requests a caller builds by hand for Client.Do: the zero request, and one
\* that already carries a Host and headers.
PresetHeader ==
  [NoHeader EXCEPT ![userAgentHeader] = <<"caller-agent">>,
                   ![masterKeyHeader] = <<"old-key">>]

CallerRequests ==
  {NewRequest("", NilURL),
   [NewRequest("GET", MkURL("", "", "Foo")) EXCEPT !.Host = "proxy.example.com",
                                                  !.Header = PresetHeader]}

(***************************************************************************)
(* The state machine: a caller holding a Client makes one call at a time.  *)
(***************************************************************************)
VARIABLES
  client,   \* the Client
  pc,       \* "idle", or "returned" when a call has returned
  args,     \* the arguments of the call that returned
  req,      \* the caller's *http.Request after the call
  result,   \* the caller's result destination after the call
  res,      \* the *http.Response returned
  err,      \* the error returned
  wire      \* the requests handed to the transport by the call

vars == <<client, pc, args, req, result, res, err, wire>>

NoArgs ==
  [op |-> "", req |-> NewRequest("", NilURL), body |-> NilBody,
   result |-> NilResult, tr |-> TransportError, cr |-> NoCredentials]

Init ==
  /\ client \in Clients
  /\ pc = "idle"
  /\ args = NoArgs
  /\ req = NewRequest("", NilURL)
  /\ result = NilResult
  /\ res = NilResponse
  /\ err = NilError
  /\ wire = <<>>

\* The call c.Do(r, body, dest) made as operation op, and its return.
Call(op, r, body, dest, tr) ==
  LET Returns(o) ==
        /\ pc' = "returned"
        /\ args' = [op |-> op, req |-> r, body |-> body, result |-> dest, tr |-> tr,
                    cr |-> NoCredentials]
        /\ req' = o.req
        /\ result' = o.result
        /\ res' = o.res
        /\ err' = o.err
        /\ wire' = o.wire
        /\ UNCHANGED client
  IN  Returns(Do(client, r, body, dest, tr))

\* Client.Get, for the URLs us and the transport answering from trs.
GetOf(us, trs) ==
  /\ pc = "idle"
  /\ \E u \in us, dest \in Results, tr \in trs :
       Call("Get", NewRequest("GET", u), NilBody, dest, tr)

\* Client.Post
PostOf(us, bodies, trs) ==
  /\ pc = "idle"
  /\ \E u \in us, body \in bodies, dest \in Results, tr \in trs :
       Call("Post", NewRequest("POST", u), body, dest, tr)

\* Client.Put
PutOf(us, bodies, trs) ==
  /\ pc = "idle"
  /\ \E u \in us, body \in bodies, dest \in Results, tr \in trs :
       Call("Put", NewRequest("PUT", u), body, dest, tr)

\* Client.Delete
DeleteOf(us, trs) ==
  /\ pc = "idle"
  /\ \E u \in us, dest \in Results, tr \in trs :
       Call("Delete", NewRequest("DELETE", u), NilBody, dest, tr)

\* Client.Do on a request the caller built.
DoRequestOf(bodies, trs) ==
  /\ pc = "idle"
  /\ \E r \in CallerRequests, body \in bodies, dest \in Results, tr \in trs :
       Call("Do", r, body, dest, tr)

Get == GetOf(RequestURLs, PlainRoundTrips)

Post == PostOf(RequestURLs, Bodies, PlainRoundTrips)

Put == PutOf(RequestURLs, Bodies, PlainRoundTrips)

Delete == DeleteOf(RequestURLs, PlainRoundTrips)

DoRequest == DoRequestOf(Bodies, PlainRoundTrips)

\* A direct call cr.Modify(r) of a credential strategy.  Header.Set on a request
\* without a Header map does not return, so the strategies with all their
\* fields set are called on requests that have one (as Client.Do ensures).
CallModify ==
  /\ pc = "idle"
  /\ \E cr \in CredentialsSet \ {NoCredentials}, r \in CallerRequests :
       LET o == Modify(cr, r)
       IN  /\ pc' = "returned"
           /\ args' = [NoArgs EXCEPT !.op = "Modify", !.req = r, !.cr = cr]
           /\ req' = o.r
           /\ err' = IF o.err = "" THEN NilError ELSE ErrorsNew(o.err)
           /\ UNCHANGED <<client, result, res, wire>>

\* c = c.WithCredentials(cr), for cr among crs
UseCredentialsOf(crs) ==
  /\ pc = "idle"
  /\ \E cr \in crs :
       /\ client' = WithCredentials(client, cr)
       /\ UNCHANGED <<pc, args, req, result, res, err, wire>>

UseCredentials == UseCredentialsOf(CredentialsSet)

\* The caller is done with what the call returned.
Return ==
  /\ pc = "returned"
  /\ pc' = "idle"
  /\ args' = NoArgs
  /\ req' = NewRequest("", NilURL)
  /\ result' = NilResult
  /\ res' = NilResponse
  /\ err' = NilError
  /\ wire' = <<>>
  /\ UNCHANGED client

Next ==
  \/ Get
  \/ Post
  \/ Put
  \/ Delete
  \/ DoRequest
  \/ CallModify
  \/ UseCredentials
  \/ Return

\* Callers of every configuration, their transports answering as in the tests.
Spec == Init /\ [][Next]_vars

(***************************************************************************)
(* The same calls made by the clients whose identity is in order, their    *)
(* transports answering with every status and body.                        *)
(***************************************************************************)
InitAnswered ==
  /\ client \in AnsweredClients
  /\ pc = "idle"
  /\ args = NoArgs
  /\ req = NewRequest("", NilURL)
  /\ result = NilResult
  /\ res = NilResponse
  /\ err = NilError
  /\ wire = <<>>

GetAnswered == GetOf(AnsweredURLs, RoundTrips)

PostAnswered == PostOf(AnsweredURLs, AnsweredBodies, RoundTrips)

PutAnswered == PutOf(AnsweredURLs, AnsweredBodies, RoundTrips)

DeleteAnswered == DeleteOf(AnsweredURLs, RoundTrips)

DoRequestAnswered == DoRequestOf(AnsweredBodies, RoundTrips)

UseCredentialsAnswered == UseCredentialsOf(AnsweredCredentials)

NextAnswered ==
  \/ GetAnswered
  \/ PostAnswered
  \/ PutAnswered
  \/ DeleteAnswered
  \/ DoRequestAnswered
  \/ UseCredentialsAnswered
  \/ Return

SpecAnswered == InitAnswered /\ [][NextAnswered]_vars

(***************************************************************************)
(* The client with redaction: a caller holding such a Client makes one     *)
(* call at a time and may switch Redact on between calls.                  *)
(***************************************************************************)
RedactClients ==
  [Transport : {"transportFunc"},
   BaseURL : {NilURL, MkURL("", "", "/1/")},
   Credentials : {CredentialsStruct("app", "rk", "js-key", mk) : mk \in {"", "ms-key"}},
   Redact : BOOLEAN]

\* The URL of TestRedact, a relative URL that holds the key twice, and none.
RedactURLs ==
  {NilURL,
   MkURL("https", "www.example.com", "/_JavaScriptKey=js-key&_MasterKey=ms-key"),
   MkURL("", "", "classes/ms-key/ms-key")}

RedactBodies == {NilBody, BoolBody(TRUE), IntMapBody}

\* What the transport answers: errors and responses, with and without the key
\* in their texts.
RedactRoundTrips ==
  {[fail |-> TRUE, err |-> "dial tcp: lookup www.example.com: no such host",
    res |-> NilResponse],
   [fail |-> TRUE, err |-> "proxy refused ms-key", res |-> NilResponse],
   Answer(200, "{\"answer\":42}", FALSE),
   Answer(200, "aaa", TRUE),
   Answer(401, "{\"error\":\"unauthorized\"}", FALSE),
   Answer(400, "{\"code\":119,\"error\":\"key ms-key not allowed\"}", FALSE),
   Answer(404, "<html>", FALSE),
   Answer(404, "", FALSE),
   Answer(500, "aaa", TRUE)}

InitRedact ==
  /\ client \in RedactClients
  /\ pc = "idle"
  /\ args = NoArgs
  /\ req = NewRequest("", NilURL)
  /\ result = NilResult
  /\ res = NilResponse
  /\ err = NilError
  /\ wire = <<>>

\* The call c.Do(r, body, dest) made as operation op, and its return.
RedactCall(op, r, body, dest, tr) ==
  LET Returns(o) ==
        /\ pc' = "returned"
        /\ args' = [op |-> op, req |-> r, body |-> body, result |-> dest, tr |-> tr,
                    cr |-> NoCredentials]
        /\ req' = o.req
        /\ result' = o.result
        /\ res' = o.res
        /\ err' = o.err
        /\ wire' = o.wire
        /\ UNCHANGED client
  IN  Returns(RedactDo(client, r, body, dest, tr))

\* Client.Head
RedactHead ==
  /\ pc = "idle"
  /\ \E u \in RedactURLs, tr \in RedactRoundTrips :
       RedactCall("Head", NewRequest("HEAD", u), NilBody, NilResult, tr)

\* Client.Get
RedactGet ==
  /\ pc = "idle"
  /\ \E u \in RedactURLs, dest \in Results, tr \in RedactRoundTrips :
       RedactCall("Get", NewRequest("GET", u), NilBody, dest, tr)

\* Client.Post
RedactPost ==
  /\ pc = "idle"
  /\ \E u \in RedactURLs, body \in RedactBodies, dest \in Results,
        tr \in RedactRoundTrips :
       RedactCall("Post", NewRequest("POST", u), body, dest, tr)

\* Client.Put
RedactPut ==
  /\ pc = "idle"
  /\ \E u \in RedactURLs, body \in RedactBodies, dest \in Results,
        tr \in RedactRoundTrips :
       RedactCall("Put", NewRequest("PUT", u), body, dest, tr)

\* Client.Delete
RedactDelete ==
  /\ pc = "idle"
  /\ \E u \in RedactURLs, dest \in Results, tr \in RedactRoundTrips :
       RedactCall("Delete", NewRequest("DELETE", u), NilBody, dest, tr)

\* c.Redact = true
SetRedact ==
  /\ pc = "idle"
  /\ ~client.Redact
  /\ client' = [client EXCEPT !.Redact = TRUE]
  /\ UNCHANGED <<pc, args, req, result, res, err, wire>>

NextRedact ==
  \/ RedactHead
  \/ RedactGet
  \/ RedactPost
  \/ RedactPut
  \/ RedactDelete
  \/ SetRedact
  \/ Return

SpecRedact == InitRedact /\ [][NextRedact]_vars

(***************************************************************************)
(* The path-based client: a caller holding such a Client makes one call at *)
(* a time and may switch Redact on between calls.                          *)
(***************************************************************************)
PathClients ==
  [BaseURL : {NilURL, MkURL("https", "example.com", "/ms-key/")},
   Credentials : {CredentialsStruct("app", "rk", jk, mk) :
                    jk \in {"", "js-key"}, mk \in {"", "ms-key"}},
   HttpClient : {"http.Client"},
   Redact : BOOLEAN]

\* The paths callers pass: of a class, with the keys in them, and ones that
\* url.Parse refuses.
Paths == {"classes/Foo", "classes/js-key/ms-key", ":Foo", ":ms-key"}

\* The classes and the ids of objects.
ClassNames == {"Foo", "ms-key"}
IDs == {"", "Xy1", "js-key"}

PathMethods == {"GET", "POST"}

PathBodies == {NilBody, BoolBody(TRUE), IntMapBody}

\* The HttpClient failing with the error text e, and answering with a response
\* after it has read the body of the request (sent) or without reading it.
PathFailure(e) == [fail |-> TRUE, err |-> e, res |-> NilResponse, sent |-> FALSE]
PathAnswer(code, body, abort, sent) ==
  [fail |-> FALSE, err |-> "", res |-> MkResponse(code, body, abort), sent |-> sent]

PathRoundTrips ==
  {PathFailure("dial tcp: lookup api.parse.com: no such host"),
   PathFailure("proxy refused js-key")}
  \cup UNION {{PathAnswer(200, "{\"answer\":42}", FALSE, s),
               PathAnswer(200, "aaa", TRUE, s),
               PathAnswer(400, "{\"code\":119,\"error\":\"key ms-key not allowed\"}",
                          FALSE, s),
               PathAnswer(400, "{\"code\":101}", FALSE, s),
               PathAnswer(404, "<html>", FALSE, s),
               PathAnswer(404, "", FALSE, s),
               PathAnswer(500, "aaa", TRUE, s)} : s \in BOOLEAN}

InitPath ==
  /\ client \in PathClients
  /\ pc = "idle"
  /\ args = NoArgs
  /\ req = NewRequest("", NilURL)
  /\ result = NilResult
  /\ res = NilResponse
  /\ err = NilError
  /\ wire = <<>>

\* The call c.Do(method, p, value, dest) made as operation op, and its return.
PathCall(op, method, p, value, dest, tr) ==
  LET Returns(o) ==
        /\ pc' = "returned"
        /\ args' = [op |-> op, method |-> method, path |-> p, body |-> value,
                    result |-> dest, tr |-> tr]
        /\ req' = o.req
        /\ result' = o.result
        /\ res' = o.res
        /\ err' = o.err
        /\ wire' = o.wire
        /\ UNCHANGED client
  IN  Returns(PathDo(client, method, p, value, dest, tr))

\* Client.Do
PathDoCall ==
  /\ pc = "idle"
  /\ \E method \in PathMethods, p \in Paths, value \in PathBodies, dest \in Results,
        tr \in PathRoundTrips :
       PathCall("Do", method, p, value, dest, tr)

\* ObjectClass.Delete
ObjectClassDelete ==
  /\ pc = "idle"
  /\ \E cn \in ClassNames, id \in IDs, tr \in PathRoundTrips :
       PathCall("ObjectClass.Delete", "DELETE", ObjectClassPath(cn, id), NilBody,
                NilResult, tr)

NextPath ==
  \/ PathDoCall
  \/ ObjectClassDelete
  \/ SetRedact
  \/ Return

SpecPath == InitPath /\ [][NextPath]_vars

(***************************************************************************)
(* Callers using one Client at the same time: each makes its calls with a  *)
(* request of its own, and the steps of their calls interleave.  Here      *)
(* client is the memory the callers share, and pc, args, req, result, res, *)
(* err and wire hold, for each caller, what they hold for the single       *)
(* caller above; req holds the objects of the request with it.             *)
(***************************************************************************)
Callers == {"A", "B"}

ConcClients ==
  [Transport : {"transportFunc"},
   BaseURL : {NilURL, MkURL("https", "api.parse.com", "/1/classes/Foo/")},
   ApplicationID : {"", "app"},
   Credentials : {RestAPIKey("rk")}]

ConcURLs == {NilURL, MkURL("", "", "Foo")}

ConcBodies == {BoolBody(TRUE), IntMapBody}

ConcRoundTrips ==
  {TransportError, Answer(200, "{\"answer\":42}", FALSE),
   Answer(404, "{\"code\":101,\"error\":\"object not found for get\"}", FALSE)}

NoRequest == [r |-> NewRequest("", NilURL), objs |-> CallerObjects("", NewRequest("", NilURL))]

InitConcurrent ==
  /\ client \in {SharedMemory(c) : c \in ConcClients}
  /\ pc = [p \in Callers |-> "idle"]
  /\ args = [p \in Callers |-> NoArgs]
  /\ req = [p \in Callers |-> NoRequest]
  /\ result = [p \in Callers |-> NilResult]
  /\ res = [p \in Callers |-> NilResponse]
  /\ err = [p \in Callers |-> NilError]
  /\ wire = [p \in Callers |-> <<>>]

\* Caller p enters c.Do(r, body, dest) as operation op: the opening of Do.
ConcCall(p, op, r, body, dest) ==
  LET Opened(o) ==
        /\ client' = o.mem
        /\ pc' = [pc EXCEPT ![p] = "opened"]
        /\ args' = [args EXCEPT ![p] = [op |-> op, req |-> r, body |-> body,
                                        result |-> dest, tr |-> TransportError,
                                        cr |-> NoCredentials]]
        /\ req' = [req EXCEPT ![p] = [r |-> o.r, objs |-> o.objs]]
        /\ result' = [result EXCEPT ![p] = dest]
        /\ UNCHANGED <<res, err, wire>>
  IN  /\ pc[p] = "idle"
      /\ Opened(DoOpen(client, p, r, CallerObjects(p, r)))

\* Client.Get
ConcGet ==
  \E p \in Callers :
    /\ pc[p] = "idle"
    /\ \E u \in ConcURLs :
         ConcCall(p, "Get", NewRequest("GET", u), NilBody, MapResult(EmptyMap))

\* Client.Post
ConcPost ==
  \E p \in Callers :
    /\ pc[p] = "idle"
    /\ \E u \in ConcURLs, body \in ConcBodies :
         ConcCall(p, "Post", NewRequest("POST", u), body, MapResult(EmptyMap))

\* Client.Put
ConcPut ==
  \E p \in Callers :
    /\ pc[p] = "idle"
    /\ \E u \in ConcURLs, body \in ConcBodies :
         ConcCall(p, "Put", NewRequest("PUT", u), body, NilResult)

\* Client.Delete
ConcDelete ==
  \E p \in Callers :
    /\ pc[p] = "idle"
    /\ \E u \in ConcURLs :
         ConcCall(p, "Delete", NewRequest("DELETE", u), NilBody, NilResult)

\* Client.Do with a request the caller has prepared
ConcDo ==
  \E p \in Callers :
    /\ pc[p] = "idle"
    /\ \E r \in CallerRequests :
         ConcCall(p, "Do", r, BoolBody(TRUE), MapResult(EmptyMap))

\* The call of caller p returns the error e.
ConcFails(p, e) ==
  /\ pc' = [pc EXCEPT ![p] = "returned"]
  /\ err' = [err EXCEPT ![p] = e]

\* The identity part of the call of caller p.
ConcIdentify ==
  \E p \in Callers :
    LET Identified(o) ==
          /\ client' = o.mem
          /\ req' = [req EXCEPT ![p] = [r |-> o.r, objs |-> o.objs]]
          /\ IF o.err # "" THEN ConcFails(p, ErrorsNew(o.err))
             ELSE pc' = [pc EXCEPT ![p] = "identified"] /\ UNCHANGED err
          /\ UNCHANGED <<args, result, res, wire>>
    IN  /\ pc[p] = "opened"
        /\ Identified(DoIdentifyStep(client, p, req[p].r, req[p].objs))

\* The body part of the call of caller p.
ConcEncode ==
  \E p \in Callers :
    LET Encoded(o) ==
          /\ client' = o.mem
          /\ req' = [req EXCEPT ![p] = [r |-> o.r, objs |-> o.objs]]
          /\ IF o.err # "" THEN ConcFails(p, HTTPErr(o.err, o.r, NilResponse))
             ELSE pc' = [pc EXCEPT ![p] = "encoded"] /\ UNCHANGED err
          /\ UNCHANGED <<args, result, res, wire>>
    IN  /\ pc[p] = "identified"
        /\ Encoded(DoBodyStep(client, p, req[p].r, req[p].objs, args[p].body))

\* The round trip of the call of caller p, the transport answering with tr.
ConcRoundTrip ==
  \E p \in Callers, tr \in ConcRoundTrips :
    LET Sent(o) ==
          /\ client' = o.mem
          /\ wire' = [wire EXCEPT ![p] = o.sent]
          /\ args' = [args EXCEPT ![p].tr = tr]
          /\ IF tr.fail
             THEN /\ ConcFails(p, HTTPErr(tr.err, req[p].r, NilResponse))
                  /\ UNCHANGED res
             ELSE /\ pc' = [pc EXCEPT ![p] = "answered"]
                  /\ res' = [res EXCEPT ![p] = tr.res]
                  /\ UNCHANGED err
          /\ UNCHANGED <<req, result>>
    IN  /\ pc[p] = "encoded"
        /\ Sent(DoRoundTripStep(client, req[p].r))

\* The call of caller p handles the response and returns.
ConcFinish ==
  \E p \in Callers :
    LET Handled(o) ==
          /\ pc' = [pc EXCEPT ![p] = "returned"]
          /\ res' = [res EXCEPT ![p] = o.res]
          /\ err' = [err EXCEPT ![p] = o.err]
          /\ result' = [result EXCEPT ![p] = o.result]
          /\ UNCHANGED <<client, args, req, wire>>
    IN  /\ pc[p] = "answered"
        /\ IF IsErrorStatus(res[p].StatusCode)
           THEN Handled(DoErrorStatus(req[p].r, res[p], result[p], wire[p]))
           ELSE Handled(DoSuccess(req[p].r, res[p], result[p], wire[p]))

\* Caller p takes what its call returned and is ready for its next call.
ConcReturn ==
  \E p \in Callers :
    /\ pc[p] = "returned"
    /\ pc' = [pc EXCEPT ![p] = "idle"]
    /\ args' = [args EXCEPT ![p] = NoArgs]
    /\ req' = [req EXCEPT ![p] = NoRequest]
    /\ result' = [result EXCEPT ![p] = NilResult]
    /\ res' = [res EXCEPT ![p] = NilResponse]
    /\ err' = [err EXCEPT ![p] = NilError]
    /\ wire' = [wire EXCEPT ![p] = <<>>]
    /\ UNCHANGED client

NextConcurrent ==
  \/ ConcGet
  \/ ConcPost
  \/ ConcPut
  \/ ConcDelete
  \/ ConcDo
  \/ ConcIdentify
  \/ ConcEncode
  \/ ConcRoundTrip
  \/ ConcFinish
  \/ ConcReturn

SpecConcurrent == InitConcurrent /\ [][NextConcurrent]_vars

(***************************************************************************)
(* The helpers called one after the other on one Client, as                *)
(* TestMethodHelpers does: here args is the list of the calls made so far  *)
(* and wire the list of the requests the transport has been handed since   *)
(* the first of them; req, result, res and err are those of the last call. *)
(***************************************************************************)
MaxCalls == 4

HelperClients ==
  [Transport : {"transportFunc"},
   BaseURL : {NilURL, MkURL("https", "api.parse.com", "/1/classes/Foo/")},
   ApplicationID : {"app"},
   Credentials : {RestAPIKey("rk")}]

HelperURLs == {NilURL, MkURL("", "", "Foo")}

HelperBodies == {NilBody, BoolBody(TRUE)}

InitHelpers ==
  /\ client \in HelperClients
  /\ pc = "idle"
  /\ args = <<>>
  /\ req = NewRequest("", NilURL)
  /\ result = NilResult
  /\ res = NilResponse
  /\ err = NilError
  /\ wire = <<>>

\* The helper op returning c.Do(r, body, nil), the transport failing as the
\* one of the test does.
HelperCall(op, r, u, body) ==
  LET Returns(o) ==
        /\ args' = Append(args, [op |-> op, u |-> u, body |-> body])
        /\ req' = o.req
        /\ result' = o.result
        /\ res' = o.res
        /\ err' = o.err
        /\ wire' = wire \o o.wire
        /\ UNCHANGED <<client, pc>>
  IN  Returns(Do(client, r, body, NilResult, TransportError))

\* Client.Get making a POST request.
HelperGet_Post ==
  /\ Len(args) < MaxCalls
  /\ \E u \in HelperURLs : HelperCall("Get", NewRequest("POST", u), u, NilBody)

\* Client.Get
HelperGet ==
  /\ Len(args) < MaxCalls
  /\ \E u \in HelperURLs : HelperCall("Get", NewRequest("GET", u), u, NilBody)

\* Client.Post
HelperPost ==
  /\ Len(args) < MaxCalls
  /\ \E u \in HelperURLs, body \in HelperBodies :
       HelperCall("Post", NewRequest("POST", u), u, body)

\* Client.Put
HelperPut ==
  /\ Len(args) < MaxCalls
  /\ \E u \in HelperURLs, body \in HelperBodies :
       HelperCall("Put", NewRequest("PUT", u), u, body)

\* Client.Delete
HelperDelete ==
  /\ Len(args) < MaxCalls
  /\ \E u \in HelperURLs : HelperCall("Delete", NewRequest("DELETE", u), u, NilBody)

NextHelpers ==
  \/ HelperGet
  \/ HelperPost
  \/ HelperPut
  \/ HelperDelete

SpecHelpers == InitHelpers /\ [][NextHelpers]_vars

(***************************************************************************)
(* A caller that derives a second Client with WithCredentials and goes on  *)
(* using both: here client is the receiver, and args holds the call made:  *)
(* for WithCredentials the receiver as it was (c), the credentials given   *)
(* (cr) and the Client returned (made), which the calls of Do that follow  *)
(* keep.                                                                   *)
(***************************************************************************)
WithClients ==
  [Transport : {"nil", "transportFunc"},
   BaseURL : {NilURL},
   ApplicationID : {"app"},
   Credentials : CredentialsSet]

WithRoundTrips == {TransportError, Answer(200, "{\"answer\":42}", FALSE)}

InitWith ==
  /\ client \in WithClients
  /\ pc = "idle"
  /\ args = [op |-> "", c |-> client, cr |-> NoCredentials, made |-> client,
             by |-> "", req |-> NewRequest("", NilURL)]
  /\ req = NewRequest("", NilURL)
  /\ result = NilResult
  /\ res = NilResponse
  /\ err = NilError
  /\ wire = <<>>

\* c2 := c.WithCredentials(cr)
WithCredentialsCall ==
  /\ pc = "idle"
  /\ \E cr \in CredentialsSet :
       /\ pc' = "derived"
       /\ args' = [op |-> "WithCredentials", c |-> client, cr |-> cr,
                   made |-> WithCredentials(client, cr), by |-> "",
                   req |-> NewRequest("", NilURL)]
       /\ wire' = <<>>
       /\ UNCHANGED <<client, req, result, res, err>>

\* The call by.Do(r, nil, nil) after WithCredentials, by being c2 or c.
DoAfterWith(by, c, r, tr) ==
  LET Returns(o) ==
        /\ pc' = "derived"
        /\ args' = [args EXCEPT !.op = "Do", !.by = by, !.req = r]
        /\ req' = o.req
        /\ result' = o.result
        /\ res' = o.res
        /\ err' = o.err
        /\ wire' = o.wire
        /\ UNCHANGED client
  IN  Returns(Do(c, r, NilBody, NilResult, tr))

\* c2.Do(r, nil, nil)
DoDerived ==
  /\ pc = "derived"
  /\ \E r \in CallerRequests, tr \in WithRoundTrips :
       DoAfterWith("c2", args.made, r, tr)

\* c.Do(r, nil, nil)
DoReceiver ==
  /\ pc = "derived"
  /\ \E r \in CallerRequests, tr \in WithRoundTrips :
       DoAfterWith("c", client, r, tr)

NextWith ==
  \/ WithCredentialsCall
  \/ DoDerived
  \/ DoReceiver

SpecWith == InitWith /\ [][NextWith]_vars

(***************************************************************************)
(* A caller that posts objects, fetches, replaces and deletes them by the  *)
(* identifiers it was given, as TestPostDeleteObject and TestMethodHelpers *)
(* do: here wire is the store, and args holds the last call (op, id, body) *)
(* and, for each identifier the caller was given, the body it last sent    *)
(* for it (kept).                                                          *)
(***************************************************************************)
MaxObjects == 3

StoreClient ==
  [Transport : {"transportFunc"},
   BaseURL : {MkURL("https", "api.parse.com", "/1/classes/Foo/")},
   Credentials : {CredentialsStruct("app", "rk", "", "")},
   Redact : {FALSE}]

StoreBodies ==
  {MapBody("answer" :> 42), MapBody("answer" :> 43),
   MapBody(("answer" :> 42) @@ ("score" :> 7))}

InitStore ==
  /\ client \in StoreClient
  /\ pc = "idle"
  /\ args = [op |-> "", id |-> 0, body |-> NilBody, kept |-> <<>>]
  /\ req = NewRequest("", NilURL)
  /\ result = NilResult
  /\ res = NilResponse
  /\ err = NilError
  /\ wire = EmptyStore

\* The call c.Do(r, body, dest) against the store: the store answers the
\* request that Do hands to the transport.
StoreCall(r, body, dest) ==
  LET Handed(o) == IF o.wire = <<>> THEN [store |-> wire, tr |-> TransportError]
                   ELSE StoreAnswer(wire, o.wire[1].req)
      Answers(a) == [store |-> a.store, o |-> RedactDo(client, r, body, dest, a.tr)]
  IN  Answers(Handed(RedactDo(client, r, body, dest, TransportError)))

\* The caller takes what the call returned.
StoreReturns(a, op, id, body, kept) ==
  /\ args' = [op |-> op, id |-> id, body |-> body, kept |-> kept]
  /\ req' = a.o.req
  /\ result' = a.o.result
  /\ res' = a.o.res
  /\ err' = a.o.err
  /\ wire' = a.store
  /\ UNCHANGED <<client, pc>>

\* c.Post(nil, body, &created): the identifier is read from the answer.
StorePost ==
  /\ pc = "idle"
  /\ wire.next <= MaxObjects
  /\ \E body \in StoreBodies :
       LET Created(a) ==
             StoreReturns(a, "Post", a.o.result.m["objectId"], body,
                          (a.o.result.m["objectId"] :> body) @@ args.kept)
       IN  Created(StoreCall(NewRequest("POST", NilURL), body, MapResult(EmptyMap)))

\* c.Get(&url.URL{Path: id}, &got)
StoreGet ==
  /\ pc = "idle"
  /\ \E id \in 1..MaxObjects :
       LET Got(a) == StoreReturns(a, "Get", id, NilBody, args.kept)
       IN  Got(StoreCall(NewRequest("GET", MkURL("", "", Itoa(id))), NilBody,
                         MapResult(EmptyMap)))

\* c.Put(&url.URL{Path: id}, body, nil)
StorePut ==
  /\ pc = "idle"
  /\ \E id \in DOMAIN args.kept, body \in StoreBodies :
       LET Replaced(a) ==
             StoreReturns(a, "Put", id, body, [args.kept EXCEPT ![id] = body])
       IN  Replaced(StoreCall(NewRequest("PUT", MkURL("", "", Itoa(id))), body,
                              NilResult))

\* c.Delete(&url.URL{Path: id}, nil)
StoreDelete ==
  /\ pc = "idle"
  /\ \E id \in DOMAIN args.kept :
       LET Deleted(a) ==
             StoreReturns(a, "Delete", id, NilBody,
                          [k \in (DOMAIN args.kept) \ {id} |-> args.kept[k]])
       IN  Deleted(StoreCall(NewRequest("DELETE", MkURL("", "", Itoa(id))), NilBody,
                             NilResult))

NextStore ==
  \/ StorePost
  \/ StoreGet
  \/ StorePut
  \/ StoreDelete

SpecStore == InitStore /\ [][NextStore]_vars

(***************************************************************************)
(* A caller that puts a list of Params together and builds the values from *)
(* it, with ParamValues and with the urlbuild version: here args holds the *)
(* list (params) and what the constructors of the urlbuild version return  *)
(* for the same arguments (built), result the outcome of ParamValues and   *)
(* wire that of urlbuild.MakeValues.                                       *)
(***************************************************************************)
MaxParams == 2

Numbers == {0, 1, 10}
Orders == {"", "a", "-score"}
Lists == {<<>>, <<"a">>, <<"a", "b">>}
Wheres == {MapBody("score" :> 7), IntMapBody}

InitParams ==
  /\ client = <<>>
  /\ pc = "idle"
  /\ args = [params |-> <<>>, built |-> <<>>]
  /\ req = NewRequest("", NilURL)
  /\ result = ParamValues(<<>>)
  /\ res = NilResponse
  /\ err = NilError
  /\ wire = MakeValues(<<>>)

\* The Param p joins the list, the caller of the urlbuild version adding its
\* counterpart unless leave, and the values are built.
AddParam(p, leave) ==
  LET Built(list, ulist) ==
        /\ args' = [params |-> list, built |-> ulist]
        /\ result' = ParamValues(list)
        /\ wire' = MakeValues(ulist)
        /\ UNCHANGED <<client, pc, req, res, err>>
  IN  Built(Append(args.params, p),
            IF leave THEN args.built ELSE Append(args.built, UrlbuildParam(p)))

AddInclude ==
  /\ Len(args.params) < MaxParams
  /\ \E l \in Lists : AddParam(ParamInclude(l), FALSE)

AddOrder ==
  /\ Len(args.params) < MaxParams
  /\ \E o \in Orders : AddParam(ParamOrder(o), FALSE)

AddLimit ==
  /\ Len(args.params) < MaxParams
  /\ \E n \in Numbers : AddParam(ParamLimit(n), FALSE)

\* ParamCount(b); the urlbuild version has ParamCount(), called to ask for the
\* count and not called otherwise.
AddCount ==
  /\ Len(args.params) < MaxParams
  /\ \E b \in BOOLEAN : AddParam(ParamCount(b), ~b)

AddSkip ==
  /\ Len(args.params) < MaxParams
  /\ \E n \in Numbers : AddParam(ParamSkip(n), FALSE)

AddKeys ==
  /\ Len(args.params) < MaxParams
  /\ \E l \in Lists : AddParam(ParamKeys(l), FALSE)

AddWhere ==
  /\ Len(args.params) < MaxParams
  /\ \E w \in Wheres : AddParam(ParamWhere(w), FALSE)

NextParams ==
  \/ AddInclude
  \/ AddOrder
  \/ AddLimit
  \/ AddCount
  \/ AddSkip
  \/ AddKeys
  \/ AddWhere

SpecParams == InitParams /\ [][NextParams]_vars

(***************************************************************************)
(* A caller that keeps one *http.Request and passes it to Client.Do and to *)
(* Credentials.Modify again and again (TestRedact passes its request to Do *)
(* twice): here req is that request, and args holds the request as it was  *)
(* at first (first) and before the last call (before), the number of Do    *)
(* calls (dos) and of Modify calls (mods), and the last call (op, cr).     *)
(***************************************************************************)
MaxReuse == 3

ReuseClients ==
  {c \in Clients : /\ c.Transport = "transportFunc"
                   /\ c.BaseURL \in {NilURL, MkURL("", "", "/1/")}
                   /\ c.Credentials \in {NoCredentials, MasterKey(""), MasterKey("mk"),
                                         SessionToken("rk", "st")}}

ReuseCredentials == {MasterKey(""), MasterKey("mk"), RestAPIKey("rk"),
                     SessionToken("rk", "st")}

ReuseRoundTrips == {TransportError, Answer(200, "{\"answer\":42}", FALSE)}

InitReuse ==
  /\ client \in ReuseClients
  /\ pc = "idle"
  /\ req \in CallerRequests
  /\ args = [op |-> "", cr |-> NoCredentials, dos |-> 0, mods |-> 0, first |-> req,
             before |-> req]
  /\ result = NilResult
  /\ res = NilResponse
  /\ err = NilError
  /\ wire = <<>>

\* c.Do(&req, body, nil) on the request as the calls before left it
ReuseDo ==
  /\ args.dos < MaxReuse
  /\ \E body \in {NilBody, BoolBody(TRUE)}, tr \in ReuseRoundTrips :
       LET Returns(o) ==
             /\ args' = [args EXCEPT !.op = "Do", !.cr = NoCredentials,
                                     !.dos = @ + 1, !.before = req]
             /\ req' = o.req
             /\ res' = o.res
             /\ err' = o.err
             /\ wire' = o.wire
             /\ UNCHANGED <<client, pc, result>>
       IN  Returns(Do(client, req, body, NilResult, tr))

\* cr.Modify(&req) on the request as the calls before left it; the request has
\* a Header map (the caller's, or the one a Do call made).
ReuseModify ==
  /\ args.mods < MaxReuse
  /\ args.dos > 0 \/ args.first.Header # NoHeader
  /\ \E cr \in ReuseCredentials :
       LET Returns(o) ==
             /\ args' = [args EXCEPT !.op = "Modify", !.cr = cr, !.mods = @ + 1,
                                     !.before = req]
             /\ req' = o.r
             /\ err' = IF o.err = "" THEN NilError ELSE ErrorsNew(o.err)
             /\ res' = NilResponse
             /\ wire' = <<>>
             /\ UNCHANGED <<client, pc, result>>
       IN  Returns(Modify(cr, req))

NextReuse ==
  \/ ReuseDo
  \/ ReuseModify

SpecReuse == InitReuse /\ [][NextReuse]_vars

(***************************************************************************)
(* Vocabulary of the properties.                                           *)
(***************************************************************************)
\* A call of Client.Do (directly or through a helper) has returned.
DoReturned == pc = "returned" /\ args.op # "Modify"

\* ... and it reached the transport.
Reached == DoReturned /\ wire # <<>>

\* ... and the transport answered with a response.
Answered == Reached /\ ~args.tr.fail

\* The status and the body of the transport's response.
AnsweredStatus == args.tr.res.StatusCode
AnsweredBody == args.tr.res.Body

\* The base URL of a client.
BaseOf(c) == IF c.BaseURL.nil THEN defaultBaseURL ELSE c.BaseURL

\* The URL a request for u is to be sent to.
ResolvedURL(c, u) ==
  IF u.nil THEN BaseOf(c)
  ELSE IF u.Scheme = "" THEN ResolveReference(BaseOf(c), u)
  ELSE u

\* A required field of the credentials is empty.
MissingField(cr) ==
  \/ cr.kind \in {"MasterKey", "RestAPIKey"} /\ cr.key = ""
  \/ cr.kind = "SessionToken" /\ (cr.RestAPIKey = "" \/ cr.SessionToken = "")

\* The text names an empty required field of the credentials.
NamesMissingField(text, cr) ==
  \/ cr.kind = "MasterKey" /\ cr.key = "" /\ Contains(text, "empty MasterKey")
  \/ cr.kind = "RestAPIKey" /\ cr.key = "" /\ Contains(text, "empty RestAPIKey")
  \/ cr.kind = "SessionToken" /\ cr.RestAPIKey = ""
       /\ Contains(text, "empty RestAPIKey")
  \/ cr.kind = "SessionToken" /\ cr.SessionToken = ""
       /\ Contains(text, "empty SessionToken")

\* The credential headers of header hd are those of hd0 with the ones of the
\* strategy cr set to its values.
CredentialHeaders(hd, hd0, cr) ==
  /\ hd[masterKeyHeader] =
       IF cr.kind = "MasterKey" THEN <<cr.key>> ELSE hd0[masterKeyHeader]
  /\ hd[restAPIKeyHeader] =
       IF cr.kind = "RestAPIKey" THEN <<cr.key>>
       ELSE IF cr.kind = "SessionToken" THEN <<cr.RestAPIKey>>
       ELSE hd0[restAPIKeyHeader]
  /\ hd[sessionTokenHeader] =
       IF cr.kind = "SessionToken" THEN <<cr.SessionToken>> ELSE hd0[sessionTokenHeader]

\* The statuses Client.Do takes for a success.
InSuccessRange(code) == 200 <= code /\ code <= 399

\* Non-empty bodies that are not JSON.
NotJSONBodies == {"<html>", "{\"answer\":"}

\* The error carries the status code: as its StatusCode or in its response.
CarriesStatus(e, code) ==
  \/ e.kind = "Error" /\ e.StatusCode = code
  \/ e.kind = "httperr" /\ ~e.response.nil /\ e.response.StatusCode = code

\* The error carries the bytes: in its message or as the body of its response.
CarriesBody(e, bytes) ==
  \/ Contains(ErrorString(e), bytes)
  \/ ~e.response.nil /\ e.response.Body = bytes

(***************************************************************************)
(* C1..C10: the request pipeline of Client.Do.                             *)
(***************************************************************************)
\* C1: the URL handed to the transport is the base URL when the request has
\* none, the resolution of the request's URL against the base URL when it is
\* relative, and the request's URL unchanged when it is absolute; the base URL
\* is Client.BaseURL when set and https://api.parse.com/1/ otherwise.
C1_URLResolved ==
  Reached =>
    LET u == args.req.URL
        sent == wire[1].req.URL
        base == IF client.BaseURL.nil THEN MkURL("https", "api.parse.com", "/1/")
                ELSE client.BaseURL
    IN  /\ u.nil => sent = base
        /\ ~u.nil /\ u.Scheme = "" => sent = ResolveReference(base, u)
        /\ ~u.nil /\ u.Scheme # "" => sent = u
        /\ client.BaseURL.nil /\ u.nil => URLString(sent) = "https://api.parse.com/1/"
        /\ client.BaseURL.nil /\ u = MkURL("", "", "Foo")
             => URLString(sent) = "https://api.parse.com/1/Foo"
        /\ client.BaseURL = MkURL("", "", "/1/") /\ u = MkURL("", "", "Foo")
             => URLString(sent) = "/1/Foo"

C1_Witness ==
  /\ Reached
  /\ client.BaseURL = MkURL("", "", "/1/")
  /\ args.req.URL = MkURL("", "", "Foo")
  /\ URLString(wire[1].req.URL) = "/1/Foo"

\* C2: a credential strategy's Modify with a required field empty returns a
\* validation error naming an empty field, leaves the request as it was and
\* calls no transport; with every required field set it returns no error and
\* sets exactly the strategy's headers.
C2_ModifyValidates ==
  pc = "returned" /\ args.op = "Modify" =>
    /\ wire = <<>>
    /\ MissingField(args.cr) =>
         /\ err.kind = "errors"
         /\ NamesMissingField(ErrorString(err), args.cr)
         /\ req = args.req
    /\ ~MissingField(args.cr) =>
         /\ err.kind = "nil"
         /\ CredentialHeaders(req.Header, args.req.Header, args.cr)
         /\ \A h \in HeaderNames \ {masterKeyHeader, restAPIKeyHeader, sessionTokenHeader} :
              req.Header[h] = args.req.Header[h]
         /\ [req EXCEPT !.Header = args.req.Header] = args.req

C2_Witness ==
  /\ pc = "returned"
  /\ args.op = "Modify"
  /\ args.cr = SessionToken("rk", "")
  /\ ErrorString(err) = "parse: cannot use empty SessionToken Credentials"
  /\ req.Header[restAPIKeyHeader] = <<>>

\* C3: when Client.ApplicationID is empty or the Credentials' Modify fails,
\* Client.Do returns that error with a nil response and the transport is not
\* invoked.
C3_IdentityChecked ==
  DoReturned /\ (client.ApplicationID = "" \/ MissingField(client.Credentials)) =>
    /\ res.nil
    /\ wire = <<>>
    /\ err.kind = "errors"
    /\ client.ApplicationID = "" => Contains(ErrorString(err), "empty ApplicationID")
    /\ client.ApplicationID # "" => NamesMissingField(ErrorString(err), client.Credentials)

C3_Witness ==
  /\ DoReturned
  /\ client.ApplicationID = "app"
  /\ client.Credentials = RestAPIKey("")
  /\ ErrorString(err) = "parse: cannot use empty RestAPIKey Credentials"
  /\ res.nil
  /\ wire = <<>>

\* C4: a response is treated as a success (its body decoded into the result
\* destination, or left alone when the destination is nil) exactly when its
\* status s has 200 <= s <= 399; for every other status Client.Do returns an
\* error and does not write into the result destination.
C4_StatusClassified ==
  Answered =>
    LET s == AnsweredStatus
        dec == DecodeBody(args.tr.res, args.result.m)
    IN  /\ (200 <= s /\ s <= 399) /\ args.result.nil =>
             err.kind = "nil" /\ result = args.result
        /\ (200 <= s /\ s <= 399) /\ ~args.result.nil =>
             /\ err.kind \in {"nil", "httperr"}
             /\ err.kind = "nil" <=> dec.err = ""
             /\ err.kind = "httperr" => err.text = dec.err
             /\ result = MapResult(dec.v)
        /\ (s < 200 \/ s > 399) => err.kind # "nil" /\ result = args.result

C4_Witness ==
  /\ Answered
  /\ AnsweredStatus = 399
  /\ AnsweredBody = "{\"answer\":42}"
  /\ ~args.result.nil
  /\ err.kind = "nil"
  /\ result = MapResult("answer" :> 42)

C7_RawError ==
  Answered /\ ~InSuccessRange(AnsweredStatus) /\ ~args.tr.res.abort
    /\ AnsweredBody \in {""} \cup NotJSONBodies =>
    /\ CarriesStatus(err, AnsweredStatus)
    /\ CarriesBody(err, AnsweredBody)

\* C8: a non-nil body that cannot be encoded makes Client.Do return an error
\* and a nil response without invoking the transport; once the client's
\* identity is in order the error is the serialization error, naming the method
\* and the resolved URL.
C8_BodyNotEncodable ==
  DoReturned /\ args.body.kind = "map[int]int" =>
    /\ res.nil
    /\ wire = <<>>
    /\ err.kind # "nil"
    /\ client.ApplicationID # "" /\ ~MissingField(client.Credentials) =>
         /\ err.kind = "httperr"
         /\ ErrorString(err) =
              args.req.Method \o " " \o URLString(ResolvedURL(client, args.req.URL))
              \o " failed with json: unsupported type: map[int]int"

C8_Witness ==
  /\ DoReturned
  /\ args.body.kind = "map[int]int"
  /\ args.req.Method = "GET"
  /\ ErrorString(err) =
       "GET https://api.parse.com/1/Foo failed with json: unsupported type: map[int]int"
  /\ res.nil
  /\ wire = <<>>

\* C9: for a status in [200,399], a body that is valid JSON for the result
\* destination gives a nil error and the destination holding the payload; a
\* body that cannot be decoded into it gives a decode error together with the
\* response; a nil destination gives a nil error whatever the body.
C9_SuccessDecoded ==
  Answered /\ InSuccessRange(AnsweredStatus) =>
    /\ ~res.nil
    /\ res.StatusCode = AnsweredStatus
    /\ args.result.nil => err.kind = "nil" /\ result = args.result
    /\ ~args.result.nil /\ AnsweredBody = "{\"answer\":42}" =>
         err.kind = "nil" /\ result = MapResult("answer" :> 42)
    /\ ~args.result.nil /\ AnsweredBody # "{\"answer\":42}" =>
         /\ err.kind = "httperr"
         /\ AnsweredBody = "" => err.text = "EOF"
         /\ AnsweredBody = "{\"answer\":" => err.text = "unexpected EOF"
         /\ AnsweredBody \in {"<html>", "aaa"} =>
              err.text = "invalid character '" \o Ch(AnsweredBody, 1)
                         \o "' looking for beginning of value"
         /\ Contains(ErrorString(err), args.req.Method \o " "
                       \o URLString(ResolvedURL(client, args.req.URL)) \o " got ")

C9_Witness ==
  /\ Answered
  /\ AnsweredStatus = 200
  /\ AnsweredBody = "{\"answer\":"
  /\ ~args.result.nil
  /\ err.kind = "httperr"
  /\ err.text = "unexpected EOF"
  /\ ~res.nil

\* C10: every request that reaches the transport carries the client's
\* ApplicationID in X-Parse-Application-Id, a non-empty User-Agent and the
\* headers of the configured credential strategy with the configured values;
\* with nil Credentials no credential header is added and the request is sent
\* all the same.
C10_IdentityHeaders ==
  /\ Reached =>
       LET hd == wire[1].req.Header
           hd0 == args.req.Header
       IN  /\ client.ApplicationID # ""
           /\ hd[applicationIDHeader] = Append(hd0[applicationIDHeader], client.ApplicationID)
           /\ HeaderGet(hd, applicationIDHeader) = client.ApplicationID
           /\ HeaderGet(hd, userAgentHeader) # ""
           /\ ~MissingField(client.Credentials)
           /\ CredentialHeaders(hd, hd0, client.Credentials)
  /\ DoReturned /\ client.Credentials.kind = "nil" /\ client.ApplicationID # ""
       /\ args.body.kind # "map[int]int" => wire # <<>>

C10_Witness ==
  /\ Reached
  /\ client.Credentials = SessionToken("rk", "st")
  /\ wire[1].req.Header[restAPIKeyHeader] = <<"rk">>
  /\ wire[1].req.Header[sessionTokenHeader] = <<"st">>
  /\ wire[1].req.Header[applicationIDHeader] = <<"app">>
  /\ wire[1].req.Header[userAgentHeader] = <<"go-parse-2015-01-31">>

(***************************************************************************)
(* C11..C20: redaction, framing, the response body, errors.                *)
(***************************************************************************)
\* The message of an error of the client with redaction as it would read
\* without redaction.
UnredactedString(e) ==
  CASE e.kind = "httperr" -> RedactHTTPErrString(e.text, RedactNoOp, e.request, e.response)
    [] e.kind = "Error" -> RedactHTTPErrString(ErrorBuf(e), RedactNoOp, e.request, e.response)
    [] OTHER -> ""

\* C11: for a client with the MasterKey S and every error its Do returns: with
\* Redact on and S not empty the message is the unredacted text with
\* "-- REDACTED MASTER KEY --" in place of every occurrence of S, and S is not
\* in it; with Redact off or S empty the message is the unredacted text, S
\* standing wherever it occurs.
C11_Redaction ==
  pc = "returned" /\ err.kind # "nil" =>
    /\ client.Redact /\ client.Credentials.MasterKey # "" =>
         /\ ~Contains(RedactErrorString(err), client.Credentials.MasterKey)
         /\ RedactErrorString(err) =
              Replace(UnredactedString(err), client.Credentials.MasterKey,
                      "-- REDACTED MASTER KEY --")
         /\ Contains(UnredactedString(err), client.Credentials.MasterKey) =>
              Contains(RedactErrorString(err), "-- REDACTED MASTER KEY --")
    /\ ~client.Redact \/ client.Credentials.MasterKey = "" =>
         /\ RedactErrorString(err) = UnredactedString(err)
         /\ Contains(URLString(err.request.URL), "ms-key") =>
              Contains(RedactErrorString(err), "ms-key")

C11_Witness ==
  /\ pc = "returned"
  /\ client.Redact
  /\ client.Credentials.MasterKey = "ms-key"
  /\ RedactErrorString(err) =
       "GET https://www.example.com/_JavaScriptKey=js-key&_MasterKey=-- REDACTED MASTER KEY -- failed with dial tcp: lookup www.example.com: no such host"
  /\ UnredactedString(err) =
       "GET https://www.example.com/_JavaScriptKey=js-key&_MasterKey=ms-key failed with dial tcp: lookup www.example.com: no such host"

\* C13: the request handed to the transport (URL, headers, body) is the one
\* the same client with the opposite Redact flag hands over for the same call;
\* it carries the keys as configured and the URL as resolved, unredacted.
C13_RequestUnredacted ==
  Reached =>
    /\ wire = RedactDo([client EXCEPT !.Redact = ~client.Redact], args.req, args.body,
                       args.result, args.tr).wire
    /\ wire[1].req.URL = ResolvedURL(client, args.req.URL)
    /\ wire[1].req.Header[applicationIDHeader] = <<client.Credentials.ApplicationID>>
    /\ wire[1].req.Header[restAPIKeyHeader] = <<client.Credentials.RestApiKey>>
    /\ args.body.kind # "nil" => wire[1].req.Body = Marshal(args.body).bd

C13_Witness ==
  /\ Reached
  /\ client.Redact
  /\ client.Credentials.MasterKey = "ms-key"
  /\ wire[1].req.URL.Path = "/1/classes/ms-key/ms-key"
  /\ err.kind = "Error"
  /\ RedactErrorString(err) =
       "POST /1/classes/-- REDACTED MASTER KEY --/-- REDACTED MASTER KEY -- got 400 Bad Request failed with code 119 and message key -- REDACTED MASTER KEY -- not allowed"
\* C14: for every non-nil body that json.Marshal encodes in N bytes, the
\* request handed to the transport declares ContentLength N and its body is
\* those N bytes (the body true gives 4); a nil body leaves the request
\* without body and length.
C14_ContentLength ==
  Reached =>
    /\ args.body.kind # "nil" =>
         /\ Marshal(args.body).err = ""
         /\ wire[1].req.hasBody
         /\ wire[1].req.Body = Marshal(args.body).bd
         /\ wire[1].req.ContentLength = Len(Marshal(args.body).bd)
         /\ args.body = BoolBody(TRUE) => wire[1].req.ContentLength = 4
         /\ args.body = MapBody("answer" :> 42) => wire[1].req.ContentLength = 13
    /\ args.body.kind = "nil" =>
         /\ wire[1].req.hasBody = args.req.hasBody
         /\ wire[1].req.ContentLength = args.req.ContentLength

C14_Witness ==
  /\ Reached
  /\ args.body = BoolBody(TRUE)
  /\ wire[1].req.Body = "true"
  /\ wire[1].req.ContentLength = 4

\* C15: whenever the transport returns a response, Client.Do has closed its
\* body when it returns: with a result decoded, with a nil result destination,
\* after a decode failure, with a structured API error, with an error body that
\* cannot be parsed and after a failure to read the error body.
C15_BodyClosed ==
  Answered =>
    /\ ~res.nil
    /\ res.closed
    /\ err.kind \in {"httperr", "Error"} => err.response.closed

C15_Witness ==
  /\ Answered
  /\ AnsweredStatus = 404
  /\ args.tr.res.abort
  /\ err.kind = "httperr"
  /\ err.text = "unexpected EOF"
  /\ res.closed

\* C16: whenever the transport returns a response (over a connection that
\* lasts), Client.Do has read its body to the end when it returns: nothing of
\* the body is left unread, on every path.
C16_BodyDrained ==
  Answered /\ ~args.tr.res.abort => ~res.nil /\ res.Body = ""

\* C17: a call of Client.Do hands at most one request to the transport, and
\* exactly one when the identity checks and the encoding of the body succeed;
\* a transport error, an error status and a decode failure leave it at that one
\* call and come back to the caller as a non-nil error.
C17_NoRetry ==
  DoReturned =>
    /\ Len(wire) <= 1
    /\ Len(wire) = 1 <=>
         /\ client.ApplicationID # ""
         /\ ~MissingField(client.Credentials)
         /\ args.body.kind = "nil" \/ Marshal(args.body).err = ""
    /\ Reached /\ args.tr.fail =>
         err.kind = "httperr" /\ err.text = args.tr.err /\ res.nil
    /\ Answered /\ ~InSuccessRange(AnsweredStatus) => err.kind # "nil"
    /\ Answered /\ InSuccessRange(AnsweredStatus) /\ ~args.result.nil
         /\ DecodeBody(args.tr.res, args.result.m).err # "" =>
           err.kind = "httperr"
           /\ err.text = DecodeBody(args.tr.res, args.result.m).err

C17_Witness ==
  /\ Reached
  /\ args.tr.fail
  /\ Len(wire) = 1
  /\ err.kind = "httperr"
  /\ Contains(ErrorString(err), "failed with hello world")

\* C19: every error Client.Do returns renders a message that embeds the
\* method and the resolved URL of the request and, when there is a response,
\* its status and the code and message of the API error or the raw body;
\* this for validation, serialization, transport, API and decode errors alike.
C19_ErrorContext ==
  DoReturned /\ err.kind # "nil" =>
    /\ Contains(ErrorString(err),
                args.req.Method \o " " \o URLString(ResolvedURL(client, args.req.URL)))
    /\ ~res.nil =>
         /\ Contains(ErrorString(err), " got " \o res.Status)
         /\ \/ /\ err.kind = "Error"
               /\ err.Code # 0 => Contains(ErrorString(err), "code " \o Itoa(err.Code))
               /\ err.Message # "" =>
                    Contains(ErrorString(err), "message " \o err.Message)
            \/ /\ err.kind = "httperr"
               /\ Contains(ErrorString(err), AnsweredBody)

\* The call that has returned failed in the transport, in the encoding of its
\* body, or in the decoding of a response with a success status.
NetworkFailure == Reached /\ args.tr.fail

SerializationFailure ==
  /\ DoReturned
  /\ client.ApplicationID # ""
  /\ ~MissingField(client.Credentials)
  /\ args.body.kind # "nil"
  /\ Marshal(args.body).err # ""

DecodeFailure ==
  /\ Answered
  /\ InSuccessRange(AnsweredStatus)
  /\ ~args.result.nil
  /\ DecodeBody(args.tr.res, args.result.m).err # ""

\* C20: the kind of the error value Client.Do returns tells a network failure,
\* a serialization failure and a decode failure apart: the error of a call that
\* failed in one of these ways is of another kind than the error the same
\* client returns for a failure of each other way.
C20_DistinctKinds ==
  /\ NetworkFailure =>
       err.kind # Do(client, args.req, IntMapBody, args.result, args.tr).err.kind
  /\ DecodeFailure =>
       /\ err.kind # Do(client, args.req, IntMapBody, args.result, args.tr).err.kind
       /\ err.kind # Do(client, args.req, args.body, args.result, TransportError).err.kind

\* A call of the path-based Client.Do has returned an error.
PathFailed == pc = "returned" /\ args.op \in {"Do", "ObjectClass.Delete"} /\ err.kind # "nil"

\* C12: with Redact on, the message of every error the path-based client
\* returns (Error, redactError or internalError) holds neither the MasterKey
\* nor the JavaScriptKey of the client.
C12_AllErrorsRedacted ==
  PathFailed /\ client.Redact =>
    /\ client.Credentials.MasterKey # "" =>
         ~Contains(PathErrorString(err).text, client.Credentials.MasterKey)
    /\ client.Credentials.JavaScriptKey # "" =>
         ~Contains(PathErrorString(err).text, client.Credentials.JavaScriptKey)

\* The calls in progress or returned, and the objects of the request of one
\* (a nil pointer names no object).
InCall(p) == pc[p] # "idle"
RequestObjects(p) == {req[p].objs.URL, req[p].objs.Header, req[p].objs.Body} \ {NoObject}

\* No step of a call writes the Client's fields or the default base URL.
ClientNotWritten == [][client' = client]_vars

\* What the call of caller p returned is what Do returns for its arguments
\* when it runs alone on the Client.
OutcomeAsAlone(p) ==
  pc[p] = "returned" =>
    Outcome(res[p], err[p], req[p].r, result[p], wire[p]) =
      Do(client.Client, args[p].req, args[p].body, args[p].result, args[p].tr)

\* C18 as stated: under every interleaving no call writes the Client's fields or
\* the default base URL, the requests of two calls share no object, and each
\* call's outcome is that of running it alone.
C18_NothingShared ==
  /\ ClientNotWritten
  /\ [](\A p \in Callers : \A q \in Callers \ {p} :
          InCall(p) /\ InCall(q) => RequestObjects(p) \cap RequestObjects(q) = {})
  /\ [](\A p \in Callers : OutcomeAsAlone(p))

\* C18, amended: under every interleaving no call writes the Client's fields or
\* the default base URL, the requests of two calls share no object but the base
\* URL (the Client's or the default one, which a request without URL is given),
\* and each call's outcome is that of running it alone.
C18_ConcurrentUse ==
  /\ ClientNotWritten
  /\ [](\A p \in Callers : \A q \in Callers \ {p} :
          InCall(p) /\ InCall(q) =>
            RequestObjects(p) \cap RequestObjects(q)
              \subseteq {DefaultBaseURLObject, BaseURLObject})
  /\ [](\A p \in Callers : OutcomeAsAlone(p))

\* Two calls without URL overlap on a Client without BaseURL: one has returned
\* what it returns alone while the other is between its steps, and both
\* requests point to the default base URL.
C18_Witness ==
  /\ pc["A"] = "returned"
  /\ pc["B"] = "encoded"
  /\ args["A"].op = "Post"
  /\ args["B"].op = "Get"
  /\ err["A"].kind = "nil"
  /\ result["A"] = MapResult("answer" :> 42)
  /\ req["A"].objs.URL = DefaultBaseURLObject
  /\ req["B"].objs.URL = DefaultBaseURLObject
  /\ req["A"].objs.Body = ObjectOf("A", "Body")
  /\ req["A"].r.URL = defaultBaseURL
  /\ client = SharedMemory(client.Client)

(***************************************************************************)
(* C21..C30                                                                *)
(***************************************************************************)
\* C21: whenever the transport produced a response, Client.Do returns that
\* response (its body read or closed by then) together with any error, the
\* error holds that response too, and the StatusCode of an API Error is the
\* status code of the response; a call that fails validation or serialization
\* returns a nil response.
C21_ResponseReturned ==
  /\ Answered =>
       /\ ~res.nil
       /\ [res EXCEPT !.Body = AnsweredBody, !.closed = FALSE] = args.tr.res
       /\ err.kind \in {"httperr", "Error"} => err.response = res
       /\ err.kind = "Error" => err.StatusCode = AnsweredStatus
       /\ IsErrorStatus(AnsweredStatus) => err.kind \in {"httperr", "Error"}
  /\ DoReturned /\ wire = <<>> => res.nil /\ err.kind \in {"errors", "httperr"}

\* A structured API error returned with the response it came in.
C21_Witness ==
  /\ Answered
  /\ AnsweredStatus = 404
  /\ err.kind = "Error"
  /\ err.Code = 101
  /\ err.StatusCode = 404
  /\ ~res.nil
  /\ res.StatusCode = 404
  /\ res.closed

\* The method a helper is to use.
MethodOfHelper(op) ==
  CASE op = "Get" -> "GET"
    [] op = "Post" -> "POST"
    [] op = "Put" -> "PUT"
    [] op = "Delete" -> "DELETE"

\* C22: after any sequence of calls of Get, Post, Put and Delete the transport
\* has been handed one request for each call, in the order of the calls: the
\* i-th has the method of the i-th helper and the URL given to it resolved (the
\* base URL for nil); those of Get and Delete have no body, those of Post and
\* Put the body given, encoded.
C22_Helpers ==
  /\ Len(wire) = Len(args)
  /\ \A i \in 1..Len(args) :
       /\ wire[i].req.Method = MethodOfHelper(args[i].op)
       /\ wire[i].req.URL = ResolvedURL(client, args[i].u)
       /\ args[i].op \in {"Get", "Delete"} =>
            ~wire[i].req.hasBody /\ wire[i].req.ContentLength = 0
       /\ args[i].op \in {"Post", "Put"} =>
            IF args[i].body = NilBody THEN ~wire[i].req.hasBody
            ELSE /\ wire[i].req.hasBody
                 /\ wire[i].req.Body = Marshal(args[i].body).bd

\* The four calls of TestMethodHelpers, with a body for Post.
C22_Witness ==
  /\ Len(args) = 4
  /\ <<args[1].op, args[2].op, args[3].op, args[4].op>> = <<"Get", "Post", "Put", "Delete">>
  /\ <<wire[1].req.Method, wire[2].req.Method, wire[3].req.Method, wire[4].req.Method>>
       = <<"GET", "POST", "PUT", "DELETE">>
  /\ args[2].body = BoolBody(TRUE)
  /\ wire[2].req.Body = "true"
  /\ args[1].u = NilURL
  /\ client.BaseURL # NilURL
  /\ wire[1].req.URL = client.BaseURL

\* C23: the Client that WithCredentials(cr) returns has cr as Credentials and
\* the Transport, BaseURL and ApplicationID of the receiver; the receiver is as
\* it was; a request that reaches the transport through the new Client has the
\* credential headers of cr (and none of the receiver's credentials), one
\* through the receiver those of the receiver's credentials.
C23_WithCredentials ==
  pc = "derived" =>
    /\ args.made.Credentials = args.cr
    /\ args.made.Transport = client.Transport
    /\ args.made.BaseURL = client.BaseURL
    /\ args.made.ApplicationID = client.ApplicationID
    /\ client = args.c
    /\ args.op = "Do" /\ wire # <<>> =>
         /\ args.by = "c2" =>
              /\ CredentialHeaders(wire[1].req.Header, args.req.Header, args.cr)
              /\ wire[1].via = transport(client)
         /\ args.by = "c" =>
              CredentialHeaders(wire[1].req.Header, args.req.Header, client.Credentials)

\* As in TestAddCredentials, on a receiver that has a master key: the request
\* sent through the new Client has the session token and the REST API key, and
\* no master key.
C23_Witness ==
  /\ pc = "derived"
  /\ args.op = "Do"
  /\ args.by = "c2"
  /\ client.Credentials = MasterKey("mk")
  /\ args.cr = SessionToken("rk", "st")
  /\ args.req = NewRequest("", NilURL)
  /\ wire # <<>>
  /\ wire[1].req.Header[sessionTokenHeader] = <<"st">>
  /\ wire[1].req.Header[restAPIKeyHeader] = <<"rk">>
  /\ wire[1].req.Header[masterKeyHeader] = <<>>

\* C24: against a service that stores what it is sent, fetching an object by
\* the identifier that the answer to its POST held succeeds and yields the
\* fields of the body posted, with their values; after a PUT of another body
\* to the same identifier it yields the fields of that body.
C24_RoundTrip ==
  /\ args.op = "Post" => err.kind = "nil" /\ args.id = wire.next - 1
  /\ args.op = "Put" => err.kind = "nil"
  /\ args.op = "Get" /\ args.id \in DOMAIN args.kept =>
       /\ err.kind = "nil"
       /\ ~result.nil
       /\ result.m = args.kept[args.id].m

\* The object posted as {"answer":42} and then put as {"answer":43} is
\* fetched with the answer 43.
C24_Witness ==
  /\ args.op = "Get"
  /\ args.id = 1
  /\ 1 \in DOMAIN args.kept
  /\ args.kept[1] = MapBody("answer" :> 43)
  /\ wire.objects["https://api.parse.com/1/classes/Foo/1"] = "{\"answer\":43}"
  /\ result = MapResult("answer" :> 43)
  /\ err.kind = "nil"

\* The texts that the Params of a list are to add for a key: those of the
\* Params of the kind that are to be sent, in their order.
RECURSIVE Expected(_, _)
Expected(params, kind) ==
  IF Len(params) = 0 THEN <<>>
  ELSE LET p == Head(params)
           sends == CASE kind = "limit" -> TRUE
                      [] kind = "skip" -> p.n # 0
                      [] kind = "order" -> p.s # ""
                      [] kind = "count" -> p.b
                      [] OTHER -> p.list # <<>>
           text == CASE kind \in {"limit", "skip"} -> Itoa(p.n)
                     [] kind = "order" -> p.s
                     [] kind = "count" -> "1"
                     [] OTHER -> Join(p.list, ",")
       IN  (IF p.kind = kind /\ sends THEN <<text>> ELSE <<>>)
           \o Expected(Tail(params), kind)

\* C25: the values ParamValues builds from a list of Params hold, for limit,
\* every limit given (0 too); for skip, every skip that is not 0; for order,
\* every order that is not empty; for include and keys, the elements joined by
\* commas of every list that is not empty; for count, a 1 for every count that
\* is true.  The urlbuild version builds the same limit and skip values.
C25_OmissionPolicy ==
  result.err = "" =>
    /\ \A k \in {"limit", "skip", "order", "include", "keys", "count"} :
         result.v[k] = Expected(args.params, k)
    /\ wire.err = ""
    /\ wire.v["limit"] = result.v["limit"]
    /\ wire.v["skip"] = result.v["skip"]

\* A limit of 0 is sent, a skip of 0 is not, in both versions.
C25_Witness ==
  /\ args.params = <<ParamLimit(0), ParamSkip(0)>>
  /\ result.err = ""
  /\ result.v["limit"] = <<"0">>
  /\ result.v["skip"] = <<>>
  /\ wire.v["limit"] = <<"0">>
  /\ wire.v["skip"] = <<>>

\* C26: SessionToken.Modify with an empty RestAPIKey returns the error of the
\* empty RestAPIKey, whatever SessionToken holds; it returns the error of the
\* empty SessionToken exactly when RestAPIKey is set and SessionToken is empty;
\* and when it fails the request is as it was, with neither header set.
C26_SessionTokenOrder ==
  (pc = "returned" /\ args.op = "Modify" /\ args.cr.kind = "SessionToken") =>
    /\ args.cr.RestAPIKey = "" =>
         (err.kind = "errors" /\ err.text = errEmptyRestAPIKey)
    /\ (err.kind = "errors" /\ err.text = errEmptySessionToken)
         <=> (args.cr.RestAPIKey # "" /\ args.cr.SessionToken = "")
    /\ err.kind # "nil" =>
         /\ req = args.req
         /\ req.Header[restAPIKeyHeader] = args.req.Header[restAPIKeyHeader]
         /\ req.Header[sessionTokenHeader] = args.req.Header[sessionTokenHeader]

\* Both fields are empty and the error is that of the RestAPIKey.
C26_Witness ==
  /\ pc = "returned"
  /\ args.op = "Modify"
  /\ args.cr = SessionToken("", "")
  /\ err.kind = "errors"
  /\ err.text = errEmptyRestAPIKey
  /\ req.Header[restAPIKeyHeader] = <<>>
  /\ req.Header[sessionTokenHeader] = <<>>

\* What the message of the API error e says after "failed with ".
FailedWith(e) ==
  LET Cut(s, head) == SubSeq(s, Len(head) + 1, Len(s))
  IN  Cut(ErrorString(e), HTTPErrString("", e.request, e.response))

\* C27: the message of an API error holds "code <n>" exactly when Code is not
\* 0, "message <m>" exactly when Message is not empty, and " and " between the
\* two exactly when both are there.
C27_RenderedParts ==
  (pc = "returned" /\ err.kind = "Error") =>
    LET Parts(t) ==
          /\ Contains(t, "code ") <=> err.Code # 0
          /\ err.Code # 0 => Contains(t, "code " \o Itoa(err.Code))
          /\ Contains(t, "message ") <=> err.Message # ""
          /\ err.Message # "" => Contains(t, "message " \o err.Message)
          /\ Contains(t, " and ") <=> (err.Code # 0 /\ err.Message # "")
          /\ (err.Code # 0 /\ err.Message # "") =>
               t = "code " \o Itoa(err.Code) \o " and " \o "message " \o err.Message
    IN  Parts(FailedWith(err))

\* An error status whose body holds an error text and no code renders the
\* message alone.
C27_Witness ==
  /\ pc = "returned"
  /\ err.kind = "Error"
  /\ err.Code = 0
  /\ err.Message = "unauthorized"
  /\ FailedWith(err) = "message unauthorized"
  /\ Contains(ErrorString(err), " failed with message unauthorized")

\* The failures that apply to the call in args, as the client stands.
NoApplicationID == client.ApplicationID = ""
ModifyFails ==
  /\ client.Credentials.kind # "nil"
  /\ Modify(client.Credentials, args.req).err # ""
MarshalFails == args.body.kind # "nil" /\ Marshal(args.body).err # ""

\* C28: of the failures that apply to a Client.Do call the one reported is the
\* first of: the empty ApplicationID, the error of Credentials.Modify, the
\* error of encoding the body, the error of the transport; and nothing that
\* comes after the failing step has happened: no application id or credential
\* header after the first, no body after the first two, no call of the
\* transport after the first three.
C28_Precedence ==
  (pc = "returned" /\ args.op \in {"Get", "Post", "Put", "Delete", "Do"}) =>
    /\ NoApplicationID =>
         /\ err = ErrorsNew(errEmptyApplicationID)
         /\ \A h \in {applicationIDHeader, masterKeyHeader, restAPIKeyHeader,
                      sessionTokenHeader} : req.Header[h] = args.req.Header[h]
    /\ (~NoApplicationID /\ ModifyFails) =>
         /\ err = ErrorsNew(Modify(client.Credentials, args.req).err)
         /\ \A h \in {masterKeyHeader, restAPIKeyHeader, sessionTokenHeader} :
              req.Header[h] = args.req.Header[h]
    /\ (NoApplicationID \/ ModifyFails) =>
         /\ req.hasBody = args.req.hasBody
         /\ req.Body = args.req.Body
         /\ req.ContentLength = args.req.ContentLength
    /\ (~NoApplicationID /\ ~ModifyFails /\ MarshalFails) =>
         /\ err.kind = "httperr"
         /\ err.text = Marshal(args.body).err
    /\ (NoApplicationID \/ ModifyFails \/ MarshalFails) =>
         /\ wire = <<>>
         /\ res.nil
         /\ result = args.result
    /\ (~NoApplicationID /\ ~ModifyFails /\ ~MarshalFails /\ args.tr.fail) =>
         /\ err.kind = "httperr"
         /\ err.text = args.tr.err
         /\ Len(wire) = 1
         /\ result = args.result

\* All four failures apply and the empty ApplicationID is the one reported.
C28_Witness ==
  /\ pc = "returned"
  /\ args.op = "Post"
  /\ NoApplicationID
  /\ ModifyFails
  /\ MarshalFails
  /\ args.tr.fail
  /\ err = ErrorsNew(errEmptyApplicationID)
  /\ wire = <<>>

\* The headers a credential strategy sets, with their values.
HeadersOf(cr) ==
  CASE cr.kind = "MasterKey" -> (masterKeyHeader :> cr.key)
    [] cr.kind = "RestAPIKey" -> (restAPIKeyHeader :> cr.key)
    [] cr.kind = "SessionToken" ->
         (restAPIKeyHeader :> cr.RestAPIKey) @@ (sessionTokenHeader :> cr.SessionToken)
    [] OTHER -> << >>

\* C29: on a request that is passed again and again, a credential strategy
\* leaves exactly one value, its own, in each of its headers however often it
\* was applied, while k Do calls add k values of User-Agent and, for a client
\* with an ApplicationID, k values of X-Parse-Application-Id; and a Do call
\* has written protocol, URL, Host and User-Agent into the caller's request
\* also when it fails for the empty ApplicationID.
C29_HeaderAttachment ==
  LET Count(h) == Len(req.Header[h]) - Len(args.first.Header[h])
      Applied(cr) == \A h \in DOMAIN HeadersOf(cr) : req.Header[h] = <<HeadersOf(cr)[h]>>
  IN  /\ Count(userAgentHeader) = args.dos
      /\ Count(applicationIDHeader) = IF client.ApplicationID = "" THEN 0 ELSE args.dos
      /\ (args.op = "Modify" /\ err.kind = "nil") => Applied(args.cr)
      /\ (args.op = "Do" /\ ~(err.kind = "errors")) => Applied(client.Credentials)
      /\ (args.op = "Do" /\ err = ErrorsNew(errEmptyApplicationID)) =>
           /\ req.Proto = "HTTP/1.1"
           /\ req.URL = DoResolveURL(client, args.before).URL
           /\ req.Host = IF args.before.Host = "" THEN req.URL.Host
                         ELSE args.before.Host
           /\ req.Header[userAgentHeader] =
                Append(args.before.Header[userAgentHeader], userAgent)

\* Three Do calls of a client with credentials on one request: three values of
\* each of Do's headers, one of the credential's.
C29_Witness ==
  /\ args.op = "Do"
  /\ args.dos = 3
  /\ args.first.Header = NoHeader
  /\ client.Credentials = MasterKey("mk")
  /\ req.Header[applicationIDHeader] = <<"app", "app", "app">>
  /\ req.Header[userAgentHeader] = <<userAgent, userAgent, userAgent>>
  /\ req.Header[masterKeyHeader] = <<"mk">>

\* C30: the message of every error the path-based Client.Do returns can be
\* rendered, and rendering it again gives the same text.
C30_RenderingSafe ==
  (pc = "returned" /\ err.kind # "nil") =>
    LET Same(first, second) ==
          /\ ~first.panic
          /\ ~second.panic
          /\ second.text = first.text
    IN  Same(PathErrorString(err), PathErrorString(PathErrorRead(err)))

====
